---- MODULE Spec2Model ----
(***************************************************************************)
(* Order-execution benchmarking engine of the hyper repository.            *)
(*                                                                         *)
(*   OrderService  (src/unnamed/part_003): the gateway.  It places orders  *)
(*     and cancels over a request/response transport and keeps the map     *)
(*     pendingOrders of fill callbacks that the userFills push handler     *)
(*     resolves.                                                           *)
(*   BenchService  (src/unnamed/part_004): the orchestrator.  It runs a    *)
(*     sequential batch of orders through the gateway.                     *)
(*                                                                         *)
(* The program runs on one JavaScript event loop: the code between two     *)
(* awaits runs to completion, so every action below is one such stretch    *)
(* (a continuation after an await, a timer callback, a push handler)       *)
(* together with the promise continuations it releases.                    *)
(*                                                                         *)
(* Time is Date.now() in abstract ticks.  Order ids are the positive       *)
(* integers the venue assigns; 0 stands for the empty string ''.           *)
(***************************************************************************)
EXTENDS Integers, Sequences, FiniteSets, TLC

\* ------------------------------------------------------------------ bounds
MaxTime == 1          \* the clock stops here
MaxOids == 2          \* order ids the venue assigns
MaxCalls == 2         \* gateway calls made by the clients of GwSpec
MaxOrders == 2        \* orders of all the accepted runs of Spec together

Callers == {"r1", "r2"}       \* callers of runBenchmark (concurrent requests)
Clients == {"r1"}             \* callers of the gateway in GwSpec: one call at a time,
                              \* as the orchestrator makes them
Oids == 1 .. MaxOids
PlaceOps == {"market", "limit", "postOnly"}
RaisedMessages == {"network error", "insufficient balance"}
FillCounts == {1, 2}          \* number of fills one userFills message carries
TimeoutChoices == {0, 1}      \* timeoutMs arguments of cleanupExpiredOrders

VARIABLES
  now,             \* Date.now()
  pendingOrders,   \* OrderService.pendingOrders: id -> {orderId, startTime, callback}
  calls,           \* per caller: the gateway call (async frame) it has in flight
  cancelTasks,     \* callbacks scheduled by setTimeout(..., 0) in cancelOrder
  oidCount,        \* venue: number of order ids assigned so far
  callCount,       \* number of gateway calls the clients made (GwSpec)
  planned,         \* sum of numberOfOrders over the accepted runs (Spec)
  invoked,         \* history: id -> number of invocations of the callback registered under it
  lastOp           \* history: the operation the last step performed

VARIABLES
  isRunning,         \* BenchService.isRunning
  currentBenchmark,  \* BenchService.currentBenchmark
  bench,             \* per caller: its runBenchmark / executeOrder frame
  timers             \* armed fill-timeout timers (orderTimeoutHandle) of executeOrder

VARIABLES
  retry              \* the frame of a retryOperation call on an operation of its own

VARIABLES
  allOrders,         \* OrderService.allOrders: the order book, a Map in insertion order
  bookOp             \* history: the l4Book message the last step processed

VARIABLES
  monitor            \* MonitorService: the watched trade file and the fields of the service

VARIABLES
  probe              \* history: the last call of a query or of a pure function

bookVars == <<allOrders, bookOp>>

gwVars == <<now, pendingOrders, calls, cancelTasks, oidCount, callCount,
            planned, invoked, lastOp>>
benchVars == <<isRunning, currentBenchmark, bench, timers>>
vars == <<gwVars, benchVars, retry, bookVars, monitor, probe>>

\* ------------------------------------------------------------------ values
NoCb == [c |-> "none", i |-> 0]
NoProbe == [fn |-> "-"]
NoMonitor ==
  [file |-> <<>>, polled |-> 0, filePosition |-> 0, stats |-> <<>>,
   tradeRecords |-> <<>>, detected |-> <<>>, passed |-> <<>>, pieces |-> 0]
ClientCb == [c |-> "client", i |-> 0]

NoResult ==
  [orderId |-> 0, success |-> FALSE, sentTime |-> 0, returnedTime |-> 0,
   errorMessage |-> ""]

NoFill == [present |-> FALSE, orderId |-> 0, fillTime |-> 0, notificationTime |-> 0]

NoCancelResult == [present |-> FALSE, orderId |-> 0, cancelTime |-> 0, notificationTime |-> 0]

NoCancelMetrics ==
  [present |-> FALSE, cancelSentTime |-> 0, cancelReturnedTime |-> 0,
   cancelSuccess |-> FALSE, cancelErrorMessage |-> "",
   cancelSendToReturnLatency |-> 0,
   hasNotification |-> FALSE, cancelNotificationTime |-> 0,
   cancelReturnToNotificationLatency |-> 0, cancelSendToNotificationLatency |-> 0]

NoConfig ==
  [orderType |-> "none", testCancelLatency |-> FALSE, numberOfOrders |-> 0,
   maxOrderTimeout |-> 0, delayBetweenOrders |-> 0, maxRetries |-> 0]

NoBenchmark == [present |-> FALSE, config |-> NoConfig, orders |-> <<>>,
                totalSuccessfulOrders |-> 0, totalFailedOrders |-> 0,
                successRate |-> [num |-> 0, den |-> 1],
                errorCategories |-> [x \in {} |-> 0]]

IdleBench ==
  [pc |-> "idle", config |-> NoConfig, first |-> 0, i |-> 0, orders |-> <<>>,
   attempt |-> 0,   \* the loop variable of the retryOperation call in progress
   cleanups |-> 0,  \* history: the calls of cleanupExpiredOrders made by the run
   started |-> 0,   \* history: the time at which the executeOrder call began
   notified |-> 0,  \* history: the invocations of cancelCallback of the order
   fillResult |-> NoFill, fillPromise |-> "none", placementResult |-> NoResult,
   cancelResult |-> NoCancelResult, cancelMetrics |-> NoCancelMetrics, wake |-> 0]

\* an Error with a message, or no error (null)
NoError == [isNull |-> TRUE, message |-> ""]
Err(message) == [isNull |-> FALSE, message |-> message]

NoRetry ==
  [pc |-> "idle", maxRetries |-> 0, baseDelay |-> 0, attempt |-> 0,
   lastError |-> NoError, value |-> "none", error |-> NoError,
   opCalls |-> 0,     \* history: number of calls of the operation
   sleeps |-> <<>>,   \* history: the delays passed to sleep, in order
   raises |-> <<>>]   \* history: what the attempts raised, in order

\* no l4Book message has been processed by the last step
NoBookOp == [op |-> "-", items |-> <<>>, gone |-> {}, raised |-> FALSE]

IdleCall ==
  [pc |-> "idle", op |-> "none", cb |-> NoCb, arg |-> 0, sent |-> 0,
   status |-> "none", oid |-> 0, msg |-> "", res |-> NoResult,
   early |-> FALSE]   \* history: a fill for oid was handled while this call was in flight

Op(name, k, a, hit, miss) ==
  [op |-> name, k |-> k, a |-> a, hit |-> hit, miss |-> miss, res |-> NoResult,
   raised |-> "-",   \* the message of the error the gateway call caught, if any
   built |-> <<>>, ended |-> "-", error |-> "", left |-> 0]

\* the history of a step that ran the stretch of code ending in world w
Did(op, w) ==
  [op EXCEPT !.built = w.built, !.ended = w.ended, !.error = w.error, !.left = w.left]

\* the last step was none of the operations the history records
Quiet == Op("-", "-", 0, {}, {})

\* Map.set / Map.delete on pendingOrders
MapSet(m, id, e) == [x \in DOMAIN m \cup {id} |-> IF x = id THEN e ELSE m[x]]
MapDelete(m, id) == [x \in DOMAIN m \ {id} |-> m[x]]


\* The mutable program state as one record, so that the statements of a
\* synchronous stretch of code compose as functions on it.
W ==
  [po |-> pendingOrders, calls |-> calls, tasks |-> cancelTasks,
   inv |-> invoked, hit |-> {}, miss |-> {},
   built |-> <<>>, ended |-> "-", error |-> "", left |-> 0,
   run |-> isRunning, cur |-> currentBenchmark, bench |-> bench, timers |-> timers,
   retry |-> retry, book |-> allOrders, bookOp |-> bookOp]

Commit(w) ==
  /\ pendingOrders' = w.po
  /\ calls' = w.calls
  /\ cancelTasks' = w.tasks
  /\ invoked' = w.inv
  /\ isRunning' = w.run
  /\ currentBenchmark' = w.cur
  /\ bench' = w.bench
  /\ timers' = w.timers
  /\ retry' = w.retry
  /\ allOrders' = w.book
  /\ bookOp' = w.bookOp
  /\ UNCHANGED <<monitor, probe>>

\* ------------------------------------------------------------ the gateway
\* OrderService.  A gateway call is an async function: "pre" while it awaits
\* the instrument metadata (getAssetIndex, and getMarketPrice for a market
\* order), "sent" while the transport call is in flight, "resp" once the venue
\* has answered and the continuation is due, "ret" at its return.

\* the start of placeMarketOrder / placeLimitOrder / placePostOnlyOrder /
\* cancelOrder, up to the first await
GwBegin(w, k, op, cb, arg) ==
  [w EXCEPT !.calls[k] =
     [IdleCall EXCEPT !.pc = "pre", !.op = op, !.cb = cb, !.arg = arg]]

\* which venue statuses a placement counts as success
StatusSucceeds(op, status) ==
  IF op = "postOnly" THEN status = "resting"
  ELSE status \in {"filled", "resting"}

\* a variant of RegisterPending that does not look at success and orderId
RegisterPendingUnchecked(w, orderId, success, cb, sentTime) ==
  IF cb # NoCb
  THEN [w EXCEPT
          !.po = MapSet(w.po, orderId,
                        [orderId |-> orderId, startTime |-> sentTime, callback |-> cb])]
  ELSE w

\* if (success && orderId && fillCallback) this.pendingOrders.set(orderId, ...)
RegisterPending(w, orderId, success, cb, sentTime) ==
  IF success /\ orderId # 0 /\ cb # NoCb
  THEN [w EXCEPT
          !.po = MapSet(w.po, orderId,
                        [orderId |-> orderId, startTime |-> sentTime, callback |-> cb])]
  ELSE w

\* the continuation of a placement after the transport call resolved
PlaceResume(w, k, t) ==
  LET call == w.calls[k]
      success == StatusSucceeds(call.op, call.status)
      orderId == IF success THEN call.oid ELSE 0
      w1 == RegisterPending(w, orderId, success, call.cb, call.sent)
  IN [w1 EXCEPT !.calls[k].pc = "ret",
                !.calls[k].res =
                   [orderId |-> orderId, success |-> success,
                    sentTime |-> call.sent, returnedTime |-> t,
                    errorMessage |->
                       IF success THEN "" ELSE "Order placement failed"]]

\* a variant of CancelResume that does not delete the fill registration
CancelResumeKeepsEntry(w, k, t) ==
  LET call == w.calls[k]
      success == call.status = "success"
  IN [w EXCEPT !.calls[k].pc = "ret",
               !.calls[k].res =
                  [orderId |-> call.arg, success |-> success,
                   sentTime |-> call.sent, returnedTime |-> t,
                   errorMessage |->
                      IF success THEN "" ELSE "Order cancellation failed"]]

\* a variant of CancelResume that schedules the callback whatever the status
CancelResumeAlwaysNotifies(w, k, t) ==
  LET call == w.calls[k]
      success == call.status = "success"
      w1 == [w EXCEPT
               !.po = IF success THEN MapDelete(w.po, call.arg) ELSE w.po,
               !.tasks = IF call.cb # NoCb
                         THEN w.tasks \cup
                                {[cb |-> call.cb, orderId |-> call.arg,
                                  cancelTime |-> t, notificationTime |-> t]}
                         ELSE w.tasks]
  IN [w1 EXCEPT !.calls[k].pc = "ret",
                !.calls[k].res =
                   [orderId |-> call.arg, success |-> success,
                    sentTime |-> call.sent, returnedTime |-> t,
                    errorMessage |->
                       IF success THEN "" ELSE "Order cancellation failed"]]

\* the continuation of cancelOrder after the transport call resolved
CancelResume(w, k, t) ==
  LET call == w.calls[k]
      success == call.status = "success"
      w1 == IF success
            THEN [w EXCEPT
                    !.po = MapDelete(w.po, call.arg),
                    !.tasks = IF call.cb # NoCb
                              THEN w.tasks \cup
                                     {[cb |-> call.cb, orderId |-> call.arg,
                                       cancelTime |-> t, notificationTime |-> t]}
                              ELSE w.tasks]
            ELSE w
  IN [w1 EXCEPT !.calls[k].pc = "ret",
                !.calls[k].res =
                   [orderId |-> call.arg, success |-> success,
                    sentTime |-> call.sent, returnedTime |-> t,
                    errorMessage |->
                       IF success THEN "" ELSE "Order cancellation failed"]]

\* a variant of GwCatch that reports a fixed message
GwCatchUnknownError(w, k, msg, t1, t2) ==
  LET call == w.calls[k]
  IN [w EXCEPT !.calls[k].pc = "ret",
               !.calls[k].res =
                  [orderId |-> IF call.op = "cancel" THEN call.arg ELSE 0,
                   success |-> FALSE, sentTime |-> t2, returnedTime |-> t1,
                   errorMessage |-> "Unknown error"]]

\* the catch block of a placement or of cancelOrder: the returned time is
\* read first (t1), the sent time by a second Date.now() (t2)
GwCatch(w, k, msg, t1, t2) ==
  LET call == w.calls[k]
  IN [w EXCEPT !.calls[k].pc = "ret",
               !.calls[k].res =
                  [orderId |-> IF call.op = "cancel" THEN call.arg ELSE 0,
                   success |-> FALSE, sentTime |-> t2, returnedTime |-> t1,
                   errorMessage |-> msg]]

\* the gateway call of k runs from its resolved await to its return
GwReturns(w, k, t1, t2) ==
  LET call == w.calls[k]
  IN IF call.status = "throw" THEN GwCatch(w, k, call.msg, t1, t2)
     ELSE IF call.op = "cancel" THEN CancelResume(w, k, t1)
     ELSE PlaceResume(w, k, t1)

\* a variant of CleanupExpired that also removes the entries whose age equals
\* timeoutMs
CleanupExpiredInclusive(po, timeoutMs, t) ==
  [id \in {x \in DOMAIN po : ~(t - po[x].startTime >= timeoutMs)} |-> po[id]]

\* cleanupExpiredOrders(timeoutMs) on pendingOrders (pendingCancels is never
\* written, so its loop has nothing to visit)
CleanupExpired(po, timeoutMs, t) ==
  [id \in {x \in DOMAIN po : ~(t - po[x].startTime > timeoutMs)} |-> po[id]]

\* -------------------------------------------------------- the orchestrator
\* BenchService.  bench[c] is the frame of caller c's runBenchmark call and of
\* the executeOrder call inside it.  pc says where the frame is suspended:
\*   "price"       await getMarketPrice (limit and post-only orders)
\*   "placing"     await retryOperation(place...)   (a gateway call in flight)
\*   "cancelDelay" await sleep(delayCancelAfterPlacement)
\*   "cancelling"  await cancelOrder                (a gateway call in flight)
\*   "cancelWait"  await sleep(200) in executeCancelOperation
\*   "fillWait"    await fillPromise
\*   "sleep"       await sleep(delayBetweenOrders)
\* and "idle" (no call in progress: not called, or the call has ended).
\* The gateway never rejects a promise (every method catches and returns
\* success=false), so retryOperation returns the result of its first attempt.

ExecPcs == {"price", "placing", "cancelDelay", "cancelling", "cancelWait", "fillWait"}
RunPcs == ExecPcs \cup {"sleep"}

CancelDelay == 1        \* config.delayCancelAfterPlacement || 2000, in ticks
CancelNotifyWait == 0   \* sleep(200) of executeCancelOperation: under one tick

Side(orderIndex) == IF orderIndex % 2 = 0 THEN "long" ELSE "short"

\* config.maxRetries || 3, the attempt budget executeOrder passes to retryOperation
MaxRetriesOf(config) == IF config.maxRetries = 0 THEN 3 ELSE config.maxRetries

\* the identity of the executeOrder call of frame b among all the calls of all
\* the runs: its closures (fillCallback, the timer, cancelCallback) carry it
Eid(b) == b.first + b.i

\* the executeOrder frame of caller c is the one that created callback cb
Live(b, cb) == b.pc \in ExecPcs /\ Eid(b) = cb.i

\* a variant of FillCallback that writes to the order the caller is executing
FillCallbackAnyOrder(w, cb, fr) ==
  LET w1 == [w EXCEPT !.timers = {tm \in w.timers : ~(tm.c = cb.c /\ tm.i = cb.i)}]
  IN IF w.bench[cb.c].pc \in ExecPcs
     THEN [w1 EXCEPT !.bench[cb.c].fillResult = fr,
                     !.bench[cb.c].fillPromise =
                        IF @ = "pending" THEN "resolved" ELSE @]
     ELSE w1

\* fillCallback of executeOrder: clearTimeout, fillResult = result, resolve
FillCallback(w, cb, fr) ==
  LET w1 == [w EXCEPT !.timers = {tm \in w.timers : ~(tm.c = cb.c /\ tm.i = cb.i)}]
  IN IF Live(w.bench[cb.c], cb)
     THEN [w1 EXCEPT !.bench[cb.c].fillResult = fr,
                     !.bench[cb.c].fillPromise =
                        IF @ = "pending" THEN "resolved" ELSE @]
     ELSE w1

\* pendingOrder.callback(fillResult) of the userFills handler
InvokeFillCallback(w, oid, cb, fr) ==
  LET w1 == [w EXCEPT !.inv[oid] = @ + 1]
  IN IF cb.c \in Callers THEN FillCallback(w1, cb, fr) ELSE w1

\* a variant of HandleFill that leaves the entry registered after the callback
HandleFillKeepsEntry(w, orderId, vt, t) ==
  IF orderId \in DOMAIN w.po
  THEN LET fr == [present |-> TRUE, orderId |-> orderId,
                  fillTime |-> vt, notificationTime |-> t]
           w1 == InvokeFillCallback(w, orderId, w.po[orderId].callback, fr)
       IN [w1 EXCEPT !.hit = @ \cup {orderId}]
  ELSE [w EXCEPT !.miss = @ \cup {orderId}]

\* a variant of HandleFill that resolves the oldest registration when the id
\* of the fill is unknown
HandleFillOldest(w, orderId, vt, t) ==
  LET id == IF orderId \in DOMAIN w.po \/ DOMAIN w.po = {} THEN orderId
            ELSE CHOOSE x \in DOMAIN w.po : \A y \in DOMAIN w.po : x <= y
  IN IF id \in DOMAIN w.po
     THEN LET fr == [present |-> TRUE, orderId |-> id,
                     fillTime |-> vt, notificationTime |-> t]
              w1 == InvokeFillCallback(w, id, w.po[id].callback, fr)
          IN [w1 EXCEPT !.po = MapDelete(w1.po, id),
                        !.hit = @ \cup {orderId}]
     ELSE [w EXCEPT !.miss = @ \cup {orderId}]

\* the body of data.fills.forEach(...) in the userFills handler, for one fill:
\* look the order id up, and if it is registered invoke the callback and
\* delete the entry.  (History: hit / miss say which ids were found; early is
\* set on a placement whose venue-assigned id the fill carries while the
\* placement has not returned yet.)
HandleFill(w, orderId, vt, t) ==
  IF orderId \in DOMAIN w.po
  THEN LET fr == [present |-> TRUE, orderId |-> orderId,
                  fillTime |-> vt, notificationTime |-> t]
           w1 == InvokeFillCallback(w, orderId, w.po[orderId].callback, fr)
       IN [w1 EXCEPT !.po = MapDelete(w1.po, orderId),
                     !.hit = @ \cup {orderId}]
  ELSE [w EXCEPT
          !.miss = @ \cup {orderId},
          !.calls = [k \in Callers |->
                       IF w.calls[k].pc = "resp" /\ w.calls[k].oid = orderId
                       THEN [w.calls[k] EXCEPT !.early = TRUE]
                       ELSE w.calls[k]]]

\* data.fills.forEach(...) of the userFills handler; every fill of the message
\* carries the venue time vt, the notification time t is read once
RECURSIVE ApplyFills(_, _, _, _)
ApplyFills(w, fills, vt, t) ==
  IF fills = <<>> THEN w
  ELSE ApplyFills(HandleFill(w, Head(fills), vt, t), Tail(fills), vt, t)

\* cancelCallback of executeCancelOperation, run by the setTimeout(..., 0) task
CancelCallback(w, task) ==
  LET cb == task.cb
  IN IF cb.c \in Callers /\ w.bench[cb.c].pc \in {"cancelling", "cancelWait"}
        /\ Eid(w.bench[cb.c]) = cb.i
     THEN [w EXCEPT !.bench[cb.c].cancelResult =
                      [present |-> TRUE, orderId |-> task.orderId,
                       cancelTime |-> task.cancelTime,
                       notificationTime |-> task.notificationTime],
                    !.bench[cb.c].notified = @ + 1]
     ELSE w

\* a variant of ExecuteOrderStart whose timer is due at once
ExecuteOrderStartTimerDueNow(w, c, orderIndex, t) ==
  LET b == w.bench[c]
      cb == [c |-> c, i |-> b.first + orderIndex]
      w1 == [w EXCEPT
               !.timers = @ \cup {[c |-> c, i |-> b.first + orderIndex,
                                   due |-> t]},
               !.bench[c] = [b EXCEPT !.i = orderIndex,
                                      !.started = t,
                                      !.fillResult = NoFill,
                                      !.fillPromise = "pending",
                                      !.placementResult = NoResult,
                                      !.cancelResult = NoCancelResult,
                                      !.cancelMetrics = NoCancelMetrics,
                                      !.attempt = IF b.config.orderType = "market"
                                                  THEN 1 ELSE 0,
                                      !.pc = IF b.config.orderType = "market"
                                             THEN "placing" ELSE "price"]]
  IN IF b.config.orderType = "market"
     THEN GwBegin(w1, c, "market", cb, 0)
     ELSE w1

\* executeOrder from its start to its first await: the fill promise and its
\* timer, then the switch on config.orderType
ExecuteOrderStart(w, c, orderIndex, t) ==
  LET b == w.bench[c]
      cb == [c |-> c, i |-> b.first + orderIndex]
      w1 == [w EXCEPT
               !.timers = @ \cup {[c |-> c, i |-> b.first + orderIndex,
                                   due |-> t + b.config.maxOrderTimeout]},
               !.bench[c] = [b EXCEPT !.i = orderIndex,
                                      !.started = t,
                                      !.fillResult = NoFill,
                                      !.fillPromise = "pending",
                                      !.placementResult = NoResult,
                                      !.cancelResult = NoCancelResult,
                                      !.cancelMetrics = NoCancelMetrics,
                                      !.attempt = IF b.config.orderType = "market"
                                                  THEN 1 ELSE 0,
                                      !.pc = IF b.config.orderType = "market"
                                             THEN "placing" ELSE "price"]]
  IN IF b.config.orderType = "market"
     THEN GwBegin(w1, c, "market", cb, 0)
     ELSE w1

\* a variant of BuildMetrics that reports a fill timeout as a failed order
BuildMetricsTimeoutFails(b) ==
  LET pr == b.placementResult
      fill == b.fillResult
      cm == b.cancelMetrics
      timedOut == b.fillPromise = "rejected" /\ ~fill.present
  IN [idx |-> b.i,
      orderId |-> pr.orderId,
      side |-> Side(b.i),
      orderSentTime |-> pr.sentTime,
      orderReturnedTime |-> pr.returnedTime,
      success |-> pr.success /\ ~timedOut,
      sendToReturnLatency |-> pr.returnedTime - pr.sentTime,
      errorMessage |-> IF timedOut THEN "Order fill timeout" ELSE pr.errorMessage,
      hasFill |-> fill.present,
      orderFilledTime |-> IF fill.present THEN fill.fillTime ELSE 0,
      fillNotificationTime |-> IF fill.present THEN fill.notificationTime ELSE 0,
      returnToFillLatency |-> IF fill.present THEN fill.fillTime - pr.returnedTime ELSE 0,
      sendToFillLatency |-> IF fill.present THEN fill.fillTime - pr.sentTime ELSE 0,
      fillToNotificationLatency |->
         IF fill.present THEN fill.notificationTime - fill.fillTime ELSE 0,
      cancel |-> cm]

\* the metrics executeOrder builds on its normal path
BuildMetrics(b) ==
  LET pr == b.placementResult
      fill == b.fillResult
      cm == b.cancelMetrics
  IN [idx |-> b.i,
      orderId |-> pr.orderId,
      side |-> Side(b.i),
      orderSentTime |-> pr.sentTime,
      orderReturnedTime |-> pr.returnedTime,
      success |-> pr.success,
      sendToReturnLatency |-> pr.returnedTime - pr.sentTime,
      errorMessage |-> pr.errorMessage,
      hasFill |-> fill.present,
      orderFilledTime |-> IF fill.present THEN fill.fillTime ELSE 0,
      fillNotificationTime |-> IF fill.present THEN fill.notificationTime ELSE 0,
      returnToFillLatency |-> IF fill.present THEN fill.fillTime - pr.returnedTime ELSE 0,
      sendToFillLatency |-> IF fill.present THEN fill.fillTime - pr.sentTime ELSE 0,
      fillToNotificationLatency |->
         IF fill.present THEN fill.notificationTime - fill.fillTime ELSE 0,
      cancel |-> cm]

\* the metrics of executeOrder's catch block
CatchMetrics(b, msg, t) ==
  [idx |-> b.i,
   orderId |-> 0,
   side |-> Side(b.i),
   orderSentTime |-> t,
   orderReturnedTime |-> t,
   success |-> FALSE,
   sendToReturnLatency |-> 0,
   errorMessage |-> msg,
   hasFill |-> FALSE,
   orderFilledTime |-> 0,
   fillNotificationTime |-> 0,
   returnToFillLatency |-> 0,
   sendToFillLatency |-> 0,
   fillToNotificationLatency |-> 0,
   cancel |-> NoCancelMetrics]

\* what the model keeps of the metrics pushed to result.orders: the fields
\* without the timestamps and latencies (the history keeps the whole record of
\* the step that built it, in lastOp.built)
Recorded(m) ==
  [idx |-> m.idx, orderId |-> m.orderId, success |-> m.success,
   errorMessage |-> m.errorMessage, hasFill |-> m.hasFill,
   hasCancel |-> m.cancel.present, cancelSuccess |-> m.cancel.cancelSuccess,
   hasCancelNotification |-> m.cancel.hasNotification]

RECURSIVE CountWhere(_, _)
CountWhere(orders, wanted) ==
  IF orders = <<>> THEN 0
  ELSE (IF Head(orders).success = wanted THEN 1 ELSE 0) + CountWhere(Tail(orders), wanted)

\* successRate = (successful / orders.length) * 100, kept as the fraction
\* num / den; 0 when there is no order
SuccessRate(successful, total) ==
  IF total > 0 THEN [num |-> successful * 100, den |-> total]
  ELSE [num |-> 0, den |-> 1]

\* const errorKey = order.errorMessage || 'Unknown Error'
ErrorKey(order) ==
  IF order.errorMessage = "" THEN "Unknown Error" ELSE order.errorMessage

\* a variant of Categorize that sets the count of a key to 1
RECURSIVE CategorizeOverwrites(_, _)
CategorizeOverwrites(cats, orders) ==
  IF orders = <<>> THEN cats
  ELSE LET order == Head(orders)
           key == ErrorKey(order)
           next == IF order.success THEN cats
                   ELSE [x \in DOMAIN cats \cup {key} |->
                           IF x = key THEN 1 ELSE cats[x]]
       IN CategorizeOverwrites(next, Tail(orders))

\* failedOrders.forEach(...): errorCategories[errorKey] = (errorCategories[errorKey] || 0) + 1
RECURSIVE Categorize(_, _)
Categorize(cats, orders) ==
  IF orders = <<>> THEN cats
  ELSE LET order == Head(orders)
           key == ErrorKey(order)
           next == IF order.success THEN cats
                   ELSE [x \in DOMAIN cats \cup {key} |->
                           IF x = key
                           THEN (IF key \in DOMAIN cats THEN cats[key] ELSE 0) + 1
                           ELSE cats[x]]
       IN Categorize(next, Tail(orders))

\* calculateStatistics: the order counts, the success rate and the error
\* categories
CalculateStatistics(config, orders) ==
  [present |-> TRUE, config |-> config, orders |-> orders,
   totalSuccessfulOrders |-> CountWhere(orders, TRUE),
   totalFailedOrders |-> CountWhere(orders, FALSE),
   successRate |-> SuccessRate(CountWhere(orders, TRUE), Len(orders)),
   errorCategories |-> Categorize([x \in {} |-> 0], orders)]

\* the orders of the batch of frame b that have not been executed
Remaining(b) == b.config.numberOfOrders - Len(b.orders)

\* a variant of Raise without the finally block
RaiseKeepsRunning(w, c, err) ==
  [w EXCEPT !.bench[c] = IdleBench, !.ended = "raised", !.error = err,
            !.left = Remaining(w.bench[c])]

\* a variant of Raise that stores the result of the aborted run
RaiseStoresPartial(w, c, err) ==
  [w EXCEPT !.bench[c] = IdleBench, !.ended = "raised", !.error = err,
            !.left = Remaining(w.bench[c]), !.run = FALSE,
            !.cur = CalculateStatistics(w.bench[c].config, w.bench[c].orders)]

\* the catch and finally blocks of runBenchmark: the error err is logged and
\* re-raised to the caller, isRunning is cleared
Raise(w, c, err) ==
  [w EXCEPT !.bench[c] = IdleBench, !.ended = "raised", !.error = err,
            !.left = Remaining(w.bench[c]), !.run = FALSE]

\* runBenchmark after its loop: the statistics, currentBenchmark, the return,
\* and the finally block; fault = "stats" is an exception raised inside
\* calculateStatistics, which the catch block re-raises
Finalize(w, c, fault) ==
  IF fault = "stats"
  THEN Raise(w, c, "stats")
  ELSE [w EXCEPT !.cur = CalculateStatistics(w.bench[c].config, w.bench[c].orders),
                 !.bench[c] = IdleBench, !.ended = "returned",
                 !.left = Remaining(w.bench[c]),
                 !.run = FALSE]

\* the for loop of runBenchmark at the test of its condition
LoopHead(w, c, orderIndex, t, fault) ==
  IF orderIndex < w.bench[c].config.numberOfOrders
  THEN ExecuteOrderStart(w, c, orderIndex, t)
  ELSE Finalize(w, c, fault)

\* a variant of AfterOrder that does not call cleanupExpiredOrders
AfterOrderNoCleanup(w, c, m, t, fault) ==
  LET b == w.bench[c]
      w1 == [w EXCEPT
               !.built = Append(@, m),
               !.bench[c] = [b EXCEPT !.orders = Append(@, Recorded(m)),
                                      !.attempt = 0,
                                      !.started = 0,
                                      !.notified = 0,
                                      !.fillResult = NoFill,
                                      !.fillPromise = "none",
                                      !.placementResult = NoResult,
                                      !.cancelResult = NoCancelResult,
                                      !.cancelMetrics = NoCancelMetrics]]
  IN IF fault = "loop"
     THEN Raise([w EXCEPT !.built = Append(@, m),
                          !.bench[c].orders = Append(@, Recorded(m))], c, "loop")
     ELSE IF b.config.delayBetweenOrders > 0 /\ b.i < b.config.numberOfOrders - 1
     THEN [w1 EXCEPT !.bench[c].pc = "sleep",
                     !.bench[c].wake = t + b.config.delayBetweenOrders]
     ELSE LoopHead(w1, c, b.i + 1, t, fault)

\* runBenchmark once executeOrder has returned metrics m: push, cleanup, then
\* the sleep between orders or the next iteration; fault = "loop" is an
\* exception raised there
AfterOrder(w, c, m, t, fault) ==
  LET b == w.bench[c]
      w1 == [w EXCEPT
               !.built = Append(@, m),
               !.bench[c] = [b EXCEPT !.orders = Append(@, Recorded(m)),
                                      !.attempt = 0,
                                      !.cleanups = @ + 1,
                                      !.started = 0,
                                      !.notified = 0,
                                      !.fillResult = NoFill,
                                      !.fillPromise = "none",
                                      !.placementResult = NoResult,
                                      !.cancelResult = NoCancelResult,
                                      !.cancelMetrics = NoCancelMetrics],
               !.po = CleanupExpired(w.po, b.config.maxOrderTimeout, t)]
  IN IF fault = "loop"
     THEN Raise([w EXCEPT !.built = Append(@, m),
                          !.bench[c].orders = Append(@, Recorded(m))], c, "loop")
     ELSE IF b.config.delayBetweenOrders > 0 /\ b.i < b.config.numberOfOrders - 1
     THEN [w1 EXCEPT !.bench[c].pc = "sleep",
                     !.bench[c].wake = t + b.config.delayBetweenOrders]
     ELSE LoopHead(w1, c, b.i + 1, t, fault)

\* executeOrder from "Build metrics" to its return
BuildAndReturn(w, c, t, fault) ==
  AfterOrder(w, c, BuildMetrics(w.bench[c]), t, fault)

\* a variant of CatchAndReturn that raises the error again, to runBenchmark
CatchAndReturnRethrows(w, c, msg, t, fault) ==
  LET b == w.bench[c]
      w1 == [w EXCEPT !.timers = {tm \in @ : ~(tm.c = c /\ tm.i = Eid(b))}]
  IN Raise(w1, c, msg)

\* executeOrder's catch block: clearTimeout and the failure metrics
CatchAndReturn(w, c, msg, t, fault) ==
  LET b == w.bench[c]
      w1 == [w EXCEPT !.timers = {tm \in @ : ~(tm.c = c /\ tm.i = Eid(b))}]
  IN AfterOrder(w1, c, CatchMetrics(b, msg, t), t, fault)

\* executeOrder at "Wait for fill or timeout"
AwaitFill(w, c, t, fault) ==
  LET b == w.bench[c]
  IN IF b.placementResult.success /\ b.config.orderType # "postOnly"
        /\ ~b.config.testCancelLatency /\ b.fillPromise = "pending"
     THEN [w EXCEPT !.bench[c].pc = "fillWait"]
     ELSE BuildAndReturn(w, c, t, fault)

\* executeOrder once retryOperation has returned the placement result
AfterPlacement(w, c, t, fault) ==
  LET res == w.calls[c].res
      b == w.bench[c]
      w1 == [w EXCEPT !.calls[c] = IdleCall, !.bench[c].placementResult = res]
  IN IF b.config.orderType = "postOnly" /\ b.config.testCancelLatency
        /\ res.success /\ res.orderId # 0
     THEN [w1 EXCEPT !.bench[c].pc = "cancelDelay",
                     !.bench[c].wake = t + CancelDelay]
     ELSE AwaitFill(w1, c, t, fault)

\* executeCancelOperation once cancelOrder has returned: it sleeps 200 ms
AfterCancelCall(w, c, t) ==
  LET res == w.calls[c].res
  IN [w EXCEPT !.calls[c] = IdleCall,
               !.bench[c].pc = "cancelWait",
               !.bench[c].wake = t + CancelNotifyWait,
               !.bench[c].cancelMetrics =
                  [NoCancelMetrics EXCEPT
                     !.present = TRUE,
                     !.cancelSentTime = res.sentTime,
                     !.cancelReturnedTime = res.returnedTime,
                     !.cancelSuccess = res.success,
                     !.cancelErrorMessage = res.errorMessage,
                     !.cancelSendToReturnLatency = res.returnedTime - res.sentTime]]

\* executeCancelOperation after the sleep: the notification fields, the return
\* through retryOperation, and executeOrder up to its return
AfterCancelWait(w, c, t, fault) ==
  LET b == w.bench[c]
      cr == b.cancelResult
      cm == b.cancelMetrics
      w1 == IF cr.present
            THEN [w EXCEPT !.bench[c].cancelMetrics =
                    [cm EXCEPT
                       !.hasNotification = TRUE,
                       !.cancelNotificationTime = cr.notificationTime,
                       !.cancelReturnToNotificationLatency =
                          cr.notificationTime - cm.cancelReturnedTime,
                       !.cancelSendToNotificationLatency =
                          cr.notificationTime - cm.cancelSentTime]]
            ELSE w
  IN AwaitFill(w1, c, t, fault)

\* the caller of the gateway call of c resumes with its result
BenchResume(w, c, t, fault) ==
  IF w.calls[c].op = "cancel" THEN AfterCancelCall(w, c, t)
  ELSE AfterPlacement(w, c, t, fault)

\* promise continuations released by a push handler or a timer: a frame
\* suspended at await fillPromise resumes once the promise is settled
RECURSIVE ResumeSettled(_, _, _, _)
ResumeSettled(w, cs, t, fault) ==
  IF cs = {} THEN w
  ELSE LET c == CHOOSE x \in cs : TRUE
           b == w.bench[c]
           w1 == IF b.pc = "fillWait" /\ b.fillPromise # "pending"
                 THEN BuildAndReturn(w, c, t, fault)
                 ELSE w
       IN ResumeSettled(w1, cs \ {c}, t, fault)

\* ------------------------------------------------------------------ actions
EmptyMap == [x \in {} |-> 0]

Init ==
  /\ now = 0
  /\ pendingOrders = EmptyMap
  /\ calls = [k \in Callers |-> IdleCall]
  /\ cancelTasks = {}
  /\ oidCount = 0
  /\ callCount = 0
  /\ planned = 0
  /\ invoked = [id \in Oids |-> 0]
  /\ lastOp = Quiet
  /\ isRunning = FALSE
  /\ currentBenchmark = NoBenchmark
  /\ bench = [c \in Callers |-> IdleBench]
  /\ timers = {}
  /\ retry = NoRetry
  /\ allOrders = <<>>
  /\ bookOp = NoBookOp
  /\ monitor = NoMonitor
  /\ probe = NoProbe

\* the second Date.now() of a stretch of code reads the same tick or the next
LaterReads == {t \in {now, now + 1} : t <= MaxTime}

\* run-level faults: an exception raised in the loop body of runBenchmark
\* outside executeOrder ("loop"), or by calculateStatistics ("stats")
Faults == {"none", "loop", "stats"}

\* the frame that awaits the gateway call of k is an orchestrator frame
AwaitedByBench(w, k) == w.bench[k].pc \in {"placing", "cancelling"}

\* a client calls placeMarketOrder / placeLimitOrder / placePostOnlyOrder
ClientPlace(k, op, cb) ==
  /\ callCount < MaxCalls
  /\ calls[k].pc = "idle"
  /\ Commit(GwBegin(W, k, op, cb, 0))
  /\ callCount' = callCount + 1
  /\ lastOp' = Quiet
  /\ UNCHANGED <<now, oidCount, planned>>

\* a client calls cancelOrder for an order id the venue assigned
ClientCancel(k, orderId, cb) ==
  /\ callCount < MaxCalls
  /\ calls[k].pc = "idle"
  /\ orderId \in 1 .. oidCount
  /\ Commit(GwBegin(W, k, "cancel", cb, orderId))
  /\ callCount' = callCount + 1
  /\ lastOp' = Quiet
  /\ UNCHANGED <<now, oidCount, planned>>

\* a client calls cleanupExpiredOrders(timeoutMs)
ClientCleanup(timeoutMs) ==
  /\ Commit([W EXCEPT !.po = CleanupExpired(pendingOrders, timeoutMs, now)])
  /\ UNCHANGED callCount
  /\ lastOp' = Op("cleanup", "-", timeoutMs,
                  DOMAIN pendingOrders \ DOMAIN pendingOrders', {})
  /\ UNCHANGED <<now, oidCount, planned>>

\* the metadata lookups of a gateway call resolve: orderSentTime / cancelSentTime
\* is read and the transport call is made
GwSend(k) ==
  /\ calls[k].pc = "pre"
  /\ Commit([W EXCEPT !.calls[k].pc = "sent", !.calls[k].sent = now])
  /\ lastOp' = Quiet
  /\ UNCHANGED <<now, oidCount, callCount, planned>>

\* the venue answers the transport call, or the transport call fails
VenueRespond(k, status) ==
  /\ calls[k].pc = "sent"
  /\ IF calls[k].op = "cancel"
     THEN status \in {"success", "error", "throw"}
     ELSE status \in {"filled", "resting", "error", "throw"}
  /\ IF status \in {"filled", "resting"}
     THEN /\ oidCount < MaxOids
          /\ oidCount' = oidCount + 1
          /\ Commit([W EXCEPT !.calls[k].pc = "resp", !.calls[k].status = status,
                              !.calls[k].oid = oidCount + 1])
     ELSE /\ oidCount' = oidCount
          /\ Commit([W EXCEPT !.calls[k].pc = "resp", !.calls[k].status = status])
  /\ lastOp' = Quiet
  /\ UNCHANGED <<now, callCount, planned>>

\* the gateway call of k runs to its return: after the transport call (pc =
\* "resp"), or through the catch block when a metadata lookup (pc = "pre") or
\* the transport call raised an error with message msg; the awaiting
\* orchestrator frame, if any, resumes in the same stretch
GwReturn(k, msg, t2, fault) ==
  /\ calls[k].pc \in {"pre", "resp"}
  /\ t2 \in LaterReads
  /\ LET thrown == calls[k].pc = "pre" \/ calls[k].status = "throw"
         w0 == IF thrown
               THEN [W EXCEPT !.calls[k].status = "throw", !.calls[k].msg = msg]
               ELSE W
         w1 == GwReturns(w0, k, now, t2)
         w2 == IF AwaitedByBench(W, k) THEN BenchResume(w1, k, t2, fault)
               ELSE [w1 EXCEPT !.calls[k] = IdleCall]
     IN /\ IF thrown THEN msg \in RaisedMessages ELSE msg = "" /\ t2 = now
        /\ Commit(w2)
        /\ lastOp' = [Op(IF calls[k].op = "cancel" THEN "cancelReturn" ELSE "placeReturn",
                         k, calls[k].arg, DOMAIN pendingOrders \ DOMAIN w1.po, {})
                      EXCEPT !.res = w1.calls[k].res,
                             !.raised = IF thrown THEN msg ELSE "-",
                             !.built = w2.built,
                             !.ended = w2.ended, !.error = w2.error,
                             !.left = w2.left]
  /\ now' = t2
  /\ UNCHANGED <<oidCount, callCount, planned>>

AllFillSeqs == UNION {[1 .. n -> Oids] : n \in FillCounts}
FillSeqs == UNION {[1 .. n -> 1 .. oidCount] : n \in FillCounts}

\* the userFills subscription callback handles one pushed message
HandleUserFills(fills, vt, fault) ==
  /\ fills \in FillSeqs
  /\ vt \in {now, IF now > 0 THEN now - 1 ELSE 0}
  /\ LET w1 == ApplyFills(W, fills, vt, now)
         w2 == ResumeSettled(w1, Callers, now, fault)
     IN /\ Commit(w2)
        /\ lastOp' = Did(Op("userFills", "-", fills, w1.hit, w1.miss), w2)
  /\ UNCHANGED <<now, oidCount, callCount, planned>>

\* the setTimeout(() => cancelCallback(cancelResult), 0) task of cancelOrder runs
RunCancelTask(task) ==
  /\ task \in cancelTasks
  /\ Commit(CancelCallback([W EXCEPT !.tasks = @ \ {task}], task))
  /\ lastOp' = Op("cancelTask", task.cb.c, task.orderId, {}, {})
  /\ UNCHANGED <<now, oidCount, callCount, planned>>

Tick ==
  /\ now < MaxTime
  /\ now' = now + 1
  /\ lastOp' = Quiet
  /\ UNCHANGED <<pendingOrders, calls, cancelTasks, oidCount, callCount,
                 planned, invoked, benchVars, retry, bookVars, monitor, probe>>

GwNext ==
  \/ \E k \in Clients, op \in PlaceOps, cb \in {NoCb, ClientCb} : ClientPlace(k, op, cb)
  \/ \E k \in Clients, id \in Oids, cb \in {NoCb, ClientCb} : ClientCancel(k, id, cb)
  \/ \E timeoutMs \in TimeoutChoices : ClientCleanup(timeoutMs)
  \/ \E k \in Callers : GwSend(k)
  \/ \E k \in Callers, status \in {"filled", "resting", "error", "throw", "success"} :
        VenueRespond(k, status)
  \/ \E k \in Callers, msg \in RaisedMessages \cup {""}, t2 \in 0 .. MaxTime :
        GwReturn(k, msg, t2, "none")
  \/ \E fills \in AllFillSeqs : HandleUserFills(fills, now, "none")
  \/ \E task \in cancelTasks : RunCancelTask(task)
  \/ Tick

GwSpec == Init /\ [][GwNext]_vars

\* ------------------------------------------------- actions of the orchestrator
OrderTypes == {"market", "limit", "postOnly"}
OrderCounts == 0 .. MaxOrders \* config.numberOfOrders
OrderTimeouts == {1}          \* config.maxOrderTimeout, in ticks
OrderDelays == {0, 1}         \* config.delayBetweenOrders, in ticks
RetryBudgets == {2}           \* config.maxRetries

\* the configurations the callers pass: a field the run never reads (the order
\* type when there is no order, the delay when there is no second order) has
\* one value; the runs of several orders are runs of limit orders, the type
\* whose executeOrder has every outcome but the cancel test
Configs ==
  {cfg \in [orderType : OrderTypes, testCancelLatency : BOOLEAN,
            numberOfOrders : OrderCounts, maxOrderTimeout : OrderTimeouts,
            delayBetweenOrders : OrderDelays, maxRetries : RetryBudgets] :
     /\ cfg.numberOfOrders = 0 => cfg.orderType = "market" /\ ~cfg.testCancelLatency
     /\ cfg.numberOfOrders < 2 => cfg.delayBetweenOrders = 0
     /\ cfg.numberOfOrders >= 2 => cfg.orderType = "limit" /\ ~cfg.testCancelLatency}

\* no run has left a trace yet
Fresh == planned = 0 /\ ~currentBenchmark.present

\* the configurations of the runs that follow a run which left a trace: runs
\* of at most one market order
LaterConfigs ==
  {cfg \in Configs : cfg.orderType = "market" /\ ~cfg.testCancelLatency
                       /\ cfg.numberOfOrders <= 1}

\* the callers are interchangeable: the first run is r1's
FirstCallers == {"r1"}

\* a variant of RunBenchmarkRejected whose error path clears isRunning
RunBenchmarkRejectedClears(c) ==
  /\ bench[c].pc = "idle"
  /\ isRunning
  /\ Commit([W EXCEPT !.run = FALSE])
  /\ lastOp' = Op("rejected", c, 0, {}, {})
  /\ UNCHANGED <<now, oidCount, callCount, planned>>

\* runBenchmark(config) is called by c while a run is in progress: it throws
RunBenchmarkRejected(c) ==
  /\ bench[c].pc = "idle"
  /\ isRunning
  /\ Commit(W)
  /\ lastOp' = Op("rejected", c, 0, {}, {})
  /\ UNCHANGED <<now, oidCount, callCount, planned>>

\* a variant of RunBenchmark without the isRunning check
RunBenchmarkUnchecked(c, config, fault) ==
  /\ bench[c].pc = "idle"
  /\ config \in Configs
  /\ planned + config.numberOfOrders <= MaxOrders
  /\ LET w1 == LoopHead([W EXCEPT !.run = TRUE,
                               !.bench[c] = [IdleBench EXCEPT !.config = config,
                                                             !.first = planned]],
                     c, 0, now, fault)
     IN /\ Commit(w1)
        /\ lastOp' = Did(Op("started", c, 0, {}, {}), w1)
  /\ planned' = planned + config.numberOfOrders
  /\ UNCHANGED <<now, oidCount, callCount>>

\* runBenchmark(config) is called by c while no run is in progress: the code up
\* to the first await of the first executeOrder (or to the return, if
\* numberOfOrders is 0)
RunBenchmark(c, config, fault) ==
  /\ bench[c].pc = "idle"
  /\ ~isRunning
  /\ config \in Configs
  /\ planned + config.numberOfOrders <= MaxOrders
  /\ LET w1 == LoopHead([W EXCEPT !.run = TRUE,
                               !.bench[c] = [IdleBench EXCEPT !.config = config,
                                                             !.first = planned]],
                     c, 0, now, fault)
     IN /\ Commit(w1)
        /\ lastOp' = Did(Op("started", c, 0, {}, {}), w1)
  /\ planned' = planned + config.numberOfOrders
  /\ UNCHANGED <<now, oidCount, callCount>>

\* getMarketPrice resolves or raises in executeOrder (limit and post-only)
PriceReturn(c, msg, fault) ==
  /\ bench[c].pc = "price"
  /\ msg \in RaisedMessages \cup {""}
  /\ LET w1 == IF msg = ""
               THEN GwBegin([W EXCEPT !.bench[c].pc = "placing",
                                      !.bench[c].attempt = 1], c,
                            bench[c].config.orderType, [c |-> c, i |-> Eid(bench[c])], 0)
               ELSE CatchAndReturn(W, c, msg, now, fault)
     IN /\ Commit(w1)
        /\ lastOp' = Did(Quiet, w1)
  /\ UNCHANGED <<now, oidCount, callCount, planned>>

\* sleep(delayCancelAfterPlacement) ends: executeCancelOperation calls cancelOrder
CancelDelayEnds(c) ==
  /\ bench[c].pc = "cancelDelay"
  /\ now >= bench[c].wake
  /\ Commit(GwBegin([W EXCEPT !.bench[c].pc = "cancelling",
                               !.bench[c].attempt = 1], c, "cancel",
                    [c |-> c, i |-> Eid(bench[c])], bench[c].placementResult.orderId))
  /\ lastOp' = Quiet
  /\ UNCHANGED <<now, oidCount, callCount, planned>>

\* sleep(200) of executeCancelOperation ends; the setTimeout(..., 0) task of
\* cancelOrder was scheduled before this sleep and is due earlier, so it has run
CancelWaitEnds(c, fault) ==
  /\ bench[c].pc = "cancelWait"
  /\ now >= bench[c].wake
  /\ ~\E task \in cancelTasks : task.cb = [c |-> c, i |-> Eid(bench[c])]
  /\ LET w1 == AfterCancelWait(W, c, now, fault)
     IN /\ Commit(w1)
        /\ lastOp' = Did(Quiet, w1)
  /\ UNCHANGED <<now, oidCount, callCount, planned>>

\* sleep(delayBetweenOrders) ends: i++ and the next iteration
SleepEnds(c, fault) ==
  /\ bench[c].pc = "sleep"
  /\ now >= bench[c].wake
  /\ Commit(LoopHead(W, c, bench[c].i + 1, now, fault))
  /\ lastOp' = Quiet
  /\ UNCHANGED <<now, oidCount, callCount, planned>>

\* the fill-timeout timer of an executeOrder call fires: reject(...)
TimerFires(tm, fault) ==
  /\ tm \in timers
  /\ now >= tm.due
  /\ LET b == bench[tm.c]
         w1 == [W EXCEPT !.timers = @ \ {tm}]
         w2 == IF Live(b, tm) /\ b.fillPromise = "pending"
               THEN [w1 EXCEPT !.bench[tm.c].fillPromise = "rejected"]
               ELSE w1
         w3 == ResumeSettled(w2, Callers, now, fault)
     IN /\ Commit(w3)
        /\ lastOp' = Did(Op("timeout", tm.c, tm.i, {}, {}), w3)
  /\ UNCHANGED <<now, oidCount, callCount, planned>>

Next ==
  \/ \E c \in IF Fresh THEN FirstCallers ELSE Callers, fault \in Faults,
        config \in IF Fresh THEN Configs ELSE LaterConfigs :
        RunBenchmark(c, config, fault)
  \/ \E c \in Callers : RunBenchmarkRejected(c)
  \/ \E c \in Callers, msg \in RaisedMessages \cup {""}, fault \in Faults :
        PriceReturn(c, msg, fault)
  \/ \E k \in Callers : GwSend(k)
  \/ \E k \in Callers, status \in {"filled", "resting", "error", "throw", "success"} :
        VenueRespond(k, status)
  \/ \E k \in Callers, msg \in RaisedMessages \cup {""}, t2 \in 0 .. MaxTime,
        fault \in Faults : GwReturn(k, msg, t2, fault)
  \/ \E fills \in [1 .. 1 -> Oids], vt \in 0 .. MaxTime, fault \in Faults :
        /\ HandleUserFills(fills, vt, fault)
        /\ pendingOrders' # pendingOrders \/ calls' # calls
  \/ \E task \in cancelTasks : RunCancelTask(task)
  \/ \E c \in Callers : CancelDelayEnds(c)
  \/ \E c \in Callers, fault \in Faults : CancelWaitEnds(c, fault)
  \/ \E c \in Callers, fault \in Faults : SleepEnds(c, fault)
  \/ \E tm \in timers, fault \in Faults : TimerFires(tm, fault)
  \/ Tick

Spec == Init /\ [][Next]_vars

\* ------------------------------------------------------------ retryOperation
\* BenchService.retryOperation(operation, maxRetries, baseDelay) on an
\* operation that may fulfil or reject at each attempt.

MaxRetries == 3                \* the largest maxRetries argument
RetryCounts == 0 .. MaxRetries \* maxRetries arguments
BaseDelays == {1, 2}           \* baseDelay arguments
OperationValues == {"v1", "v2"}

\* the messages of the errors the operation raises
OperationMessages ==
  {"network error", "Insufficient Balance", "API rate limit exceeded", ""}

\* what an attempt raises: an Error with a message, or a value that is not an
\* Error (a string)
Raisables == [isError : BOOLEAN, message : OperationMessages]

\* the characters of a string
Letters(str) ==
  CASE str = "network error" ->
         <<"n", "e", "t", "w", "o", "r", "k", " ", "e", "r", "r", "o", "r">>
    [] str = "Insufficient Balance" ->
         <<"I", "n", "s", "u", "f", "f", "i", "c", "i", "e", "n", "t", " ", "B", "a", "l", "a", "n", "c", "e">>
    [] str = "API rate limit exceeded" ->
         <<"A", "P", "I", " ", "r", "a", "t", "e", " ", "l", "i", "m", "i", "t", " ", "e", "x", "c", "e", "e", "d", "e", "d">>
    [] str = "insufficient balance" ->
         <<"i", "n", "s", "u", "f", "f", "i", "c", "i", "e", "n", "t", " ", "b", "a", "l", "a", "n", "c", "e">>
    [] str = "order must have minimum value" ->
         <<"o", "r", "d", "e", "r", " ", "m", "u", "s", "t", " ", "h", "a", "v", "e", " ", "m", "i", "n", "i", "m", "u", "m", " ", "v", "a", "l", "u", "e">>
    [] str = "invalid asset" ->
         <<"i", "n", "v", "a", "l", "i", "d", " ", "a", "s", "s", "e", "t">>
    [] str = "asset not found" ->
         <<"a", "s", "s", "e", "t", " ", "n", "o", "t", " ", "f", "o", "u", "n", "d">>
    [] str = "unauthorized" ->
         <<"u", "n", "a", "u", "t", "h", "o", "r", "i", "z", "e", "d">>
    [] str = "forbidden" ->
         <<"f", "o", "r", "b", "i", "d", "d", "e", "n">>
    [] str = "rate limit exceeded" ->
         <<"r", "a", "t", "e", " ", "l", "i", "m", "i", "t", " ", "e", "x", "c", "e", "e", "d", "e", "d">>
    [] OTHER -> <<>>

UpperCase ==
  <<"A", "B", "C", "D", "E", "F", "G", "H", "I", "J", "K", "L", "M",
    "N", "O", "P", "Q", "R", "S", "T", "U", "V", "W", "X", "Y", "Z">>
LowerCase ==
  <<"a", "b", "c", "d", "e", "f", "g", "h", "i", "j", "k", "l", "m",
    "n", "o", "p", "q", "r", "s", "t", "u", "v", "w", "x", "y", "z">>

\* String.prototype.toLowerCase on a sequence of characters
ToLowerCase(chars) ==
  [n \in DOMAIN chars |->
     IF \E u \in DOMAIN UpperCase : UpperCase[u] = chars[n]
     THEN LowerCase[CHOOSE u \in DOMAIN UpperCase : UpperCase[u] = chars[n]]
     ELSE chars[n]]

\* String.prototype.includes on sequences of characters
Includes(chars, part) ==
  \E n \in 0 .. Len(chars) - Len(part) : SubSeq(chars, n + 1, n + Len(part)) = part

PermanentErrors ==
  {"insufficient balance", "order must have minimum value", "invalid asset",
   "asset not found", "unauthorized", "forbidden", "rate limit exceeded"}

\* a variant of ShouldRetryError that compares without lowering the case
ShouldRetryErrorCaseSensitive(raised) ==
  IF ~raised.isError \/ raised.message = "" THEN TRUE
  ELSE ~\E permError \in PermanentErrors :
          Includes(Letters(raised.message), Letters(permError))

\* shouldRetryError(error): true when the error has no message (a raised value
\* that is not an Error has none), else whether the lowered message includes
\* none of the permanent errors
ShouldRetryError(raised) ==
  IF ~raised.isError \/ raised.message = "" THEN TRUE
  ELSE ~\E permError \in PermanentErrors :
          Includes(ToLowerCase(Letters(raised.message)), Letters(permError))

RECURSIVE Pow(_, _)
Pow(base, exponent) == IF exponent = 0 THEN 1 ELSE base * Pow(base, exponent - 1)

\* a variant of Backoff with a constant delay
BackoffConstant(baseDelay, attempt) == baseDelay

\* const delay = baseDelay * Math.pow(2, attempt - 1)
Backoff(baseDelay, attempt) == baseDelay * Pow(2, attempt - 1)

\* throw lastError || new Error(`${operationName} failed after retries`)
RetryThrow(r) ==
  [r EXCEPT !.pc = "raised",
            !.error = IF r.lastError.isNull
                      THEN Err("operation failed after retries")
                      ELSE r.lastError]

\* the for loop at the test of its condition: the next attempt, or the throw
\* after the loop
RetryLoop(r) ==
  IF r.attempt <= r.maxRetries
  THEN [r EXCEPT !.pc = "calling", !.opCalls = @ + 1]
  ELSE RetryThrow(r)

\* the catch block of the loop body
RetryCatch(r, raised) ==
  LET r1 == [r EXCEPT !.lastError = Err(raised.message),
                      !.raises = Append(@, raised)]
  IN IF ~ShouldRetryError(raised)
     THEN [r1 EXCEPT !.pc = "raised", !.error = r1.lastError]
     ELSE IF r.attempt = r.maxRetries THEN RetryThrow(r1)
     ELSE [r1 EXCEPT !.pc = "sleeping",
                     !.sleeps = Append(@, Backoff(r.baseDelay, r.attempt))]

\* retryOperation(operation, maxRetries, baseDelay) is called
RetryOperation(maxRetries, baseDelay) ==
  /\ retry.pc = "idle"
  /\ retry' = RetryLoop([NoRetry EXCEPT !.maxRetries = maxRetries,
                                       !.baseDelay = baseDelay,
                                       !.attempt = 1])
  /\ UNCHANGED <<gwVars, benchVars, bookVars, monitor, probe>>

\* the operation fulfils: return await operation()
OperationFulfils(value) ==
  /\ retry.pc = "calling"
  /\ retry' = [retry EXCEPT !.pc = "returned", !.value = value]
  /\ UNCHANGED <<gwVars, benchVars, bookVars, monitor, probe>>

\* the operation rejects
OperationRejects(raised) ==
  /\ retry.pc = "calling"
  /\ retry' = RetryCatch(retry, raised)
  /\ UNCHANGED <<gwVars, benchVars, bookVars, monitor, probe>>

\* await this.sleep(delay) ends: attempt++ and the next iteration
RetrySleepEnds ==
  /\ retry.pc = "sleeping"
  /\ retry' = RetryLoop([retry EXCEPT !.attempt = @ + 1])
  /\ UNCHANGED <<gwVars, benchVars, bookVars, monitor, probe>>

RetryNext ==
  \/ \E maxRetries \in RetryCounts, baseDelay \in BaseDelays :
        RetryOperation(maxRetries, baseDelay)
  \/ \E value \in OperationValues : OperationFulfils(value)
  \/ \E raised \in Raisables : OperationRejects(raised)
  \/ RetrySleepEnds

RetrySpec == Init /\ [][RetryNext]_vars

\* ------------------------------------------------------------ the order book
\* OrderService.allOrders, maintained from the l4Book messages of the node.
\* A Map iterates in insertion order: the book is the sequence of its entries,
\* one per order id.

MaxBookOids == 3       \* order ids of the book
MaxLevelOrders == 2    \* orders in one level of a snapshot
MaxItems == 1          \* items of one Diff or Updates message

BookOids == 1 .. MaxBookOids
Sizes == {"1", "2"}
DiffTimestamps == {1}       \* the timestamp of a Diff item (0: it carries none)

\* the orders of the venue: an order id has one side and one price for life;
\* the first two ids are bids, the others asks
BookSide(oid) == IF oid <= 2 THEN "B" ELSE "A"
BookPx(oid) ==
  CASE oid = 1 -> "10"
    [] oid = 2 -> "9"
    [] oid = 3 -> "11"
    [] OTHER -> "10"

\* the order objects of Snapshot levels and of status updates
OrderData ==
  {[user |-> "0xabc", coin |-> "BTC", side |-> BookSide(oid), limitPx |-> BookPx(oid),
    sz |-> sz, oid |-> oid, timestamp |-> 1] : oid \in BookOids, sz \in Sizes}

\* the items of Diff.diffs: raw_book_diff is 'remove', {new: {sz}},
\* {update: {newSz}} or another object ("other")
DiffItems ==
  {it \in [oid : BookOids, coin : {"BTC"}, side : {"Bid", "Ask"}, px : {"9", "10", "11"},
           kind : {"remove", "new", "update", "other"}, sz : Sizes,
           timestamp : DiffTimestamps] :
     /\ it.side = (IF BookSide(it.oid) = "B" THEN "Bid" ELSE "Ask")
     /\ it.px = BookPx(it.oid)
     /\ it.kind \in {"remove", "other"} => it.sz = "1"}

Statuses ==
  {"open", "filled", "canceled", "badAloPxRejected", "rejected", "partialFill",
   "triggered"}

\* the items of Updates.order_statuses
StatusItems == [status : Statuses, order : OrderData]

SeqsUpTo(S, n) == UNION {[1 .. m -> S] : m \in 0 .. n}

\* the orders of a snapshot rest in the book with their full size
SnapshotOrders == {o \in OrderData : o.sz = "2"}

\* Snapshot.levels: the bids, then the asks
SnapshotLevels ==
  {<<bids, asks>> :
     bids \in SeqsUpTo({o \in SnapshotOrders : o.side = "B"}, MaxLevelOrders),
     asks \in SeqsUpTo({o \in SnapshotOrders : o.side = "A"}, MaxLevelOrders)}

BookIds(book) == {book[n].oid : n \in DOMAIN book}

\* Map.get / Map.set / Map.delete on allOrders
BookGet(book, oid) == book[CHOOSE n \in DOMAIN book : book[n].oid = oid]

BookSet(book, order) ==
  IF order.oid \in BookIds(book)
  THEN [n \in DOMAIN book |-> IF book[n].oid = order.oid THEN order ELSE book[n]]
  ELSE Append(book, order)

BookDelete(book, oid) ==
  LET Other(entry) == entry.oid # oid
  IN SelectSeq(book, Other)

\* the Order the handlers build from an order object of the payload
OrderOf(orderData) ==
  [coin |-> orderData.coin, side |-> orderData.side, limitPx |-> orderData.limitPx,
   sz |-> orderData.sz, oid |-> orderData.oid, timestamp |-> orderData.timestamp]

\* snapshot.levels.forEach(level => level.forEach(orderData => allOrders.set(...)))
RECURSIVE SetLevel(_, _)
SetLevel(book, level) ==
  IF level = <<>> THEN book
  ELSE SetLevel(BookSet(book, OrderOf(Head(level))), Tail(level))

RECURSIVE SetLevels(_, _)
SetLevels(book, levels) ==
  IF levels = <<>> THEN book
  ELSE SetLevels(SetLevel(book, Head(levels)), Tail(levels))

\* a variant of ApplySnapshot that does not clear the map
ApplySnapshotMerges(book, levels) == SetLevels(book, levels)

\* the Snapshot branch of processL4BookMessage: clear, then set every order
ApplySnapshot(book, levels) == SetLevels(<<>>, levels)

\* a variant of ApplyL4Diff whose remove deletes every order of the item's side
ApplyL4DiffRemovesSide(book, item, t) ==
  IF item.kind = "remove"
  THEN LET OtherSide(entry) == entry.side # BookSide(item.oid)
       IN SelectSeq(book, OtherSide)
  ELSE IF item.kind = "new"
  THEN BookSet(book,
               [coin |-> item.coin,
                side |-> IF item.side = "Bid" THEN "B" ELSE "A",
                limitPx |-> item.px, sz |-> item.sz, oid |-> item.oid,
                timestamp |-> IF item.timestamp # 0 THEN item.timestamp ELSE t])
  ELSE IF item.kind = "update" /\ item.oid \in BookIds(book)
  THEN BookSet(book,
               [BookGet(book, item.oid) EXCEPT
                  !.sz = item.sz,
                  !.timestamp = IF item.timestamp # 0 THEN item.timestamp ELSE @])
  ELSE book

\* applyL4Diff(diffItem)
ApplyL4Diff(book, item, t) ==
  IF item.kind = "remove" THEN BookDelete(book, item.oid)
  ELSE IF item.kind = "new"
  THEN BookSet(book,
               [coin |-> item.coin,
                side |-> IF item.side = "Bid" THEN "B" ELSE "A",
                limitPx |-> item.px, sz |-> item.sz, oid |-> item.oid,
                timestamp |-> IF item.timestamp # 0 THEN item.timestamp ELSE t])
  ELSE IF item.kind = "update"
  THEN IF item.oid \in BookIds(book)
       THEN LET existing == BookGet(book, item.oid)
            IN BookSet(book,
                       [existing EXCEPT
                          !.sz = item.sz,
                          !.timestamp = IF item.timestamp # 0 THEN item.timestamp
                                        ELSE @])
       ELSE book
  ELSE book

\* diff.diffs.forEach(diffItem => this.applyL4Diff(diffItem))
RECURSIVE ApplyDiffs(_, _, _)
ApplyDiffs(book, diffs, t) ==
  IF diffs = <<>> THEN book
  ELSE ApplyDiffs(ApplyL4Diff(book, Head(diffs), t), Tail(diffs), t)

\* a variant of ApplyL4Update whose default branch deletes the order
ApplyL4UpdateDropsUnknown(book, item) ==
  IF item.status = "open" THEN BookSet(book, OrderOf(item.order))
  ELSE IF item.status = "partialFill"
  THEN IF item.order.oid \in BookIds(book)
       THEN BookSet(book,
                    [BookGet(book, item.order.oid) EXCEPT
                       !.sz = item.order.sz, !.timestamp = item.order.timestamp])
       ELSE book
  ELSE BookDelete(book, item.order.oid)

\* a variant of ApplyL4Update whose partialFill inserts an order it does not know
ApplyL4UpdateInsertsPartial(book, item) ==
  IF item.status = "open" THEN BookSet(book, OrderOf(item.order))
  ELSE IF item.status \in {"filled", "canceled", "badAloPxRejected", "rejected"}
  THEN BookDelete(book, item.order.oid)
  ELSE IF item.status = "partialFill"
  THEN IF item.order.oid \in BookIds(book)
       THEN BookSet(book,
                    [BookGet(book, item.order.oid) EXCEPT
                       !.sz = item.order.sz, !.timestamp = item.order.timestamp])
       ELSE BookSet(book, OrderOf(item.order))
  ELSE book

\* applyL4Update(orderStatus)
ApplyL4Update(book, item) ==
  IF item.status = "open" THEN BookSet(book, OrderOf(item.order))
  ELSE IF item.status \in {"filled", "canceled", "badAloPxRejected", "rejected"}
  THEN BookDelete(book, item.order.oid)
  ELSE IF item.status = "partialFill"
  THEN IF item.order.oid \in BookIds(book)
       THEN BookSet(book,
                    [BookGet(book, item.order.oid) EXCEPT
                       !.sz = item.order.sz, !.timestamp = item.order.timestamp])
       ELSE book
  ELSE book

\* updates.order_statuses.forEach(orderStatus => this.applyL4Update(orderStatus))
RECURSIVE ApplyUpdates(_, _)
ApplyUpdates(book, items) ==
  IF items = <<>> THEN book
  ELSE ApplyUpdates(ApplyL4Update(book, Head(items)), Tail(items))

\* the entries of one side, in the order of the map
SideOf(book, side) ==
  LET OnSide(entry) == entry.side = side
  IN SelectSeq(book, OnSide)

\* history: the ids the step removed from the book
Gone(before, after) == BookIds(before) \ BookIds(after)

\* an l4Book message with a Snapshot is handled
HandleL4Snapshot(levels) ==
  /\ levels \in SnapshotLevels
  /\ allOrders' = ApplySnapshot(allOrders, levels)
  /\ bookOp' = [op |-> "snapshot",
                items |-> [n \in DOMAIN (levels[1] \o levels[2]) |->
                             [kind |-> "set", oid |-> (levels[1] \o levels[2])[n].oid,
                              sz |-> (levels[1] \o levels[2])[n].sz]],
                gone |-> Gone(allOrders, allOrders'), raised |-> FALSE]
  /\ UNCHANGED <<gwVars, benchVars, retry, monitor, probe>>

\* an l4Book message with a Diff is handled
HandleL4Diff(diffs) ==
  /\ diffs \in SeqsUpTo(DiffItems, MaxItems)
  /\ allOrders' = ApplyDiffs(allOrders, diffs, now)
  /\ bookOp' = [op |-> "diff",
                items |-> [n \in DOMAIN diffs |->
                             [kind |-> diffs[n].kind, oid |-> diffs[n].oid,
                              sz |-> diffs[n].sz]],
                gone |-> Gone(allOrders, allOrders'), raised |-> FALSE]
  /\ UNCHANGED <<gwVars, benchVars, retry, monitor, probe>>

\* an l4Book message with Updates is handled: the statuses are applied; with at
\* least one status the best bid and ask are printed, which raises a TypeError
\* that handleL4Message catches when a side of the book is empty
HandleL4Updates(items) ==
  /\ items \in SeqsUpTo(StatusItems, MaxItems)
  /\ allOrders' = ApplyUpdates(allOrders, items)
  /\ bookOp' = [op |-> "updates",
                items |-> [n \in DOMAIN items |->
                             [kind |-> items[n].status, oid |-> items[n].order.oid,
                              sz |-> items[n].order.sz]],
                gone |-> Gone(allOrders, allOrders'),
                raised |-> /\ items # <<>>
                           /\ \/ SideOf(allOrders', "B") = <<>>
                              \/ SideOf(allOrders', "A") = <<>>]
  /\ UNCHANGED <<gwVars, benchVars, retry, monitor, probe>>

BookNext ==
  \/ \E levels \in SnapshotLevels : HandleL4Snapshot(levels)
  \/ \E diffs \in SeqsUpTo(DiffItems, MaxItems) : HandleL4Diff(diffs)
  \/ \E items \in SeqsUpTo(StatusItems, MaxItems) : HandleL4Updates(items)

BookSpec == Init /\ [][BookNext]_vars

\* ---------------------------------------------------- the queries of the book
\* getSortedBids / getSortedAsks / getL4Snapshot on the book that a first
\* Snapshot message builds.  The orders of these snapshots take any side and
\* any of a few prices, two of which ("10" and "10.0") parse to the same
\* number, so that a level of the book holds several orders.

MaxQueryOrders == 3    \* orders of the snapshot that builds the queried book

Prices == {"9", "10", "10.0"}

\* the characters of a price string
PxChars(str) ==
  CASE str = "9" -> <<"9">>
    [] str = "10" -> <<"1", "0">>
    [] str = "10.0" -> <<"1", "0", ".", "0">>
    [] str = "11" -> <<"1", "1">>
    [] OTHER -> <<>>

DigitOf(ch) ==
  CASE ch = "0" -> 0 [] ch = "1" -> 1 [] ch = "2" -> 2 [] ch = "3" -> 3
    [] ch = "4" -> 4 [] ch = "5" -> 5 [] ch = "6" -> 6 [] ch = "7" -> 7
    [] ch = "8" -> 8 [] ch = "9" -> 9 [] OTHER -> -1

\* the value of the digits before the decimal point
RECURSIVE IntegerPart(_, _)
IntegerPart(chars, acc) ==
  IF chars = <<>> \/ DigitOf(Head(chars)) < 0 THEN acc
  ELSE IntegerPart(Tail(chars), 10 * acc + DigitOf(Head(chars)))

RECURSIVE AfterPoint(_)
AfterPoint(chars) ==
  IF chars = <<>> THEN <<>>
  ELSE IF Head(chars) = "." THEN Tail(chars)
  ELSE IF DigitOf(Head(chars)) < 0 THEN <<>>
  ELSE AfterPoint(Tail(chars))

\* a variant of ParseFloat that reads the first digit only
ParseFloatFirstDigit(str) == 10 * DigitOf(Head(PxChars(str)))

\* parseFloat(str) of a decimal string, in tenths: the integer part and the
\* first digit after the point
ParseFloat(str) ==
  LET chars == PxChars(str)
      frac == AfterPoint(chars)
  IN 10 * IntegerPart(chars, 0)
       + (IF frac # <<>> /\ DigitOf(Head(frac)) >= 0 THEN DigitOf(Head(frac)) ELSE 0)

\* Array.prototype.sort with a comparator is a stable sort: an element goes
\* behind every element that does not compare greater than it.  The comparator
\* is given as the function of its values on the pairs of elements.
RECURSIVE InsertBy(_, _, _)
InsertBy(sorted, x, compare) ==
  IF sorted = <<>> THEN <<x>>
  ELSE IF compare[<<sorted[Len(sorted)], x>>] <= 0 THEN Append(sorted, x)
  ELSE Append(InsertBy(SubSeq(sorted, 1, Len(sorted) - 1), x, compare),
              sorted[Len(sorted)])

RECURSIVE SortBy(_, _)
SortBy(array, compare) ==
  IF array = <<>> THEN <<>>
  ELSE InsertBy(SortBy(SubSeq(array, 1, Len(array) - 1), compare),
                array[Len(array)], compare)

Elements(array) == {array[n] : n \in DOMAIN array}

\* a variant of GetSortedBids that does not sort
GetSortedBidsUnsorted(book) == SideOf(book, "B")

\* getSortedBids(): the bids, by descending price
GetSortedBids(book) ==
  LET bids == SideOf(book, "B")
      compare == [pair \in Elements(bids) \X Elements(bids) |->
                    ParseFloat(pair[2].limitPx) - ParseFloat(pair[1].limitPx)]
  IN SortBy(bids, compare)

\* getSortedAsks(): the asks, by ascending price
GetSortedAsks(book) ==
  LET asks == SideOf(book, "A")
      compare == [pair \in Elements(asks) \X Elements(asks) |->
                    ParseFloat(pair[1].limitPx) - ParseFloat(pair[2].limitPx)]
  IN SortBy(asks, compare)

\* the order objects of the snapshot that builds the queried book
QueryOrders ==
  [user : {"0xabc"}, coin : {"BTC"}, side : {"B", "A"}, limitPx : Prices,
   sz : {"2"}, oid : BookOids, timestamp : {1}]

\* Snapshot.levels: the bids, then the asks, MaxQueryOrders orders at most
QueryLevels ==
  UNION {UNION {{<<bids, asks>> :
                   bids \in [1 .. nb -> {o \in QueryOrders : o.side = "B"}],
                   asks \in [1 .. na -> {o \in QueryOrders : o.side = "A"}]} :
                  na \in 0 .. MaxQueryOrders - nb} :
           nb \in 0 .. MaxQueryOrders}

\* the snapshots that can come first: none once the book is built
FirstLevels ==
  IF allOrders = <<>> /\ probe = NoProbe
  THEN QueryLevels \ {<<<<>>, <<>>>>}
  ELSE {}

\* the first l4Book message after the subscription, a Snapshot, is handled
FirstL4Snapshot(levels) ==
  /\ allOrders = <<>>
  /\ probe = NoProbe
  /\ allOrders' = ApplySnapshot(allOrders, levels)
  /\ bookOp' = [op |-> "snapshot", items |-> <<>>, gone |-> {}, raised |-> FALSE]
  /\ UNCHANGED <<gwVars, benchVars, retry, monitor, probe>>

\* getL4Snapshot() is called
GetL4Snapshot ==
  /\ probe = NoProbe
  /\ probe' = IF Len(allOrders) = 0
              THEN [fn |-> "getL4Snapshot", null |-> TRUE, bids |-> <<>>, asks |-> <<>>]
              ELSE [fn |-> "getL4Snapshot", null |-> FALSE,
                    bids |-> GetSortedBids(allOrders),
                    asks |-> GetSortedAsks(allOrders)]
  /\ UNCHANGED <<gwVars, benchVars, retry, bookVars, monitor>>

QueryNext ==
  \/ \E levels \in FirstLevels : FirstL4Snapshot(levels)
  \/ GetL4Snapshot

QuerySpec == Init /\ [][QueryNext]_vars

\* ------------------------------------------------------------ getPercentile
\* BenchService.getPercentile and MonitorService.getPercentile are the same
\* code.  The arithmetic is exact: an index and a result are kept in
\* hundredths, which represents (percentile / 100) * (length - 1) and the
\* interpolated value without rounding for integer percentiles.

MaxSamples == 4        \* length of the sorted array

Samples == {10, 20, 30, 40}
Percentiles == {0, 25, 50, 95, 99, 100}

\* the arrays the callers pass: sorted ascending by sort((a, b) => a - b)
SortedArrays ==
  {a \in SeqsUpTo(Samples, MaxSamples) :
     \A n \in DOMAIN a : n > 1 => a[n - 1] <= a[n]}

\* a variant of GetPercentile that takes the element below the index
GetPercentileLower(sortedArray, percentile) ==
  IF Len(sortedArray) = 0 THEN 0
  ELSE 100 * sortedArray[((percentile * (Len(sortedArray) - 1)) \div 100) + 1]

\* a variant of GetPercentile that gives the weight to the lower element
GetPercentileWeightsSwapped(sortedArray, percentile) ==
  IF Len(sortedArray) = 0 THEN 0
  ELSE LET index == percentile * (Len(sortedArray) - 1)
           lower == index \div 100
           upper == IF index % 100 = 0 THEN lower ELSE lower + 1
           weight == index - 100 * lower
       IN IF lower = upper THEN 100 * sortedArray[lower + 1]
          ELSE sortedArray[lower + 1] * weight + sortedArray[upper + 1] * (100 - weight)

\* getPercentile(sortedArray, percentile), in hundredths; the array of the
\* code is indexed from 0, the sequence from 1
GetPercentile(sortedArray, percentile) ==
  IF Len(sortedArray) = 0 THEN 0
  ELSE LET index == percentile * (Len(sortedArray) - 1)     \* in hundredths
           lower == index \div 100
           upper == IF index % 100 = 0 THEN lower ELSE lower + 1
           weight == index - 100 * lower                    \* in hundredths
       IN IF lower = upper THEN 100 * sortedArray[lower + 1]
          ELSE sortedArray[lower + 1] * (100 - weight) + sortedArray[upper + 1] * weight

\* getPercentile is called
CallGetPercentile(sortedArray, percentile) ==
  /\ probe' = [fn |-> "getPercentile", sortedArray |-> sortedArray,
               percentile |-> percentile,
               result |-> GetPercentile(sortedArray, percentile)]
  /\ UNCHANGED <<gwVars, benchVars, retry, bookVars, monitor>>

PercentileNext ==
  \E sortedArray \in SortedArrays, percentile \in Percentiles :
     CallGetPercentile(sortedArray, percentile)

PercentileSpec == Init /\ [][PercentileNext]_vars

\* ------------------------------------- the latency statistics of a result
\* calculateStatistics on the orders of a finished batch.  An optional field
\* of the metrics that is undefined is a flag that is FALSE (hasFill,
\* cancel.present, cancel.hasNotification) and a value 0 that nothing reads.

MaxStatOrders == 3     \* orders of the result

\* the cancel fields executeCancelOperation produces: none, a failed cancel,
\* a successful cancel with its notification
StatCancels ==
  {c \in [present : BOOLEAN, cancelSuccess : BOOLEAN,
          cancelSendToReturnLatency : {0, 1, 2}, hasNotification : BOOLEAN,
          cancelSendToNotificationLatency : {0, 2}] :
     /\ ~c.present => ~c.cancelSuccess /\ c.cancelSendToReturnLatency = 0
     /\ c.present => c.cancelSendToReturnLatency # 0
     /\ c.hasNotification = c.cancelSuccess
     /\ c.cancelSendToNotificationLatency = (IF c.hasNotification THEN 2 ELSE 0)}

\* the metrics executeOrder produces, reduced to what the statistics read; a
\* failed placement has neither a fill nor a cancel
StatOrders ==
  {o \in [success : BOOLEAN, sendToReturnLatency : {0, 1}, hasFill : BOOLEAN,
          sendToFillLatency : {0, 3, 4}, fillToNotificationLatency : {0, 1},
          cancel : StatCancels] :
     /\ ~o.success => ~o.hasFill /\ ~o.cancel.present
     /\ o.success => o.sendToReturnLatency = 1
     /\ o.hasFill = (o.sendToFillLatency # 0)
     /\ o.fillToNotificationLatency = (IF o.hasFill THEN 1 ELSE 0)}

\* array.sort((a, b) => a - b)
SortAscending(array) ==
  SortBy(array, [pair \in Elements(array) \X Elements(array) |-> pair[1] - pair[2]])

RECURSIVE Sum(_)
Sum(array) == IF array = <<>> THEN 0 ELSE Head(array) + Sum(Tail(array))

\* the fields of one latency: left as they were when there is no sample
LatencyStats(array) ==
  LET samples == SortAscending(array)
  IN IF Len(samples) > 0
     THEN [set |-> TRUE, samples |-> samples,
           sum |-> Sum(samples), count |-> Len(samples),      \* avg = sum / count
           min |-> samples[1], max |-> samples[Len(samples)],
           p50 |-> GetPercentile(samples, 50),
           p95 |-> GetPercentile(samples, 95),
           p99 |-> GetPercentile(samples, 99)]
     ELSE [set |-> FALSE, samples |-> <<>>, sum |-> 0, count |-> 0, min |-> 0,
           max |-> 0, p50 |-> 0, p95 |-> 0, p99 |-> 0]

\* the statistics of one latency are computed from its samples, in the order
\* the orders of the result give them
CallLatencyStats(latencies) ==
  /\ probe' = [fn |-> "latencyStats", latencies |-> latencies,
               result |-> LatencyStats(latencies)]
  /\ UNCHANGED <<gwVars, benchVars, retry, bookVars, monitor>>

LatencyNext ==
  \E latencies \in SeqsUpTo(Samples, MaxSamples) : CallLatencyStats(latencies)

LatencySpec == Init /\ [][LatencyNext]_vars

\* a variant of CalculateLatencies that takes a missing fill latency as 0
CalculateLatenciesZeroForMissing(orders) ==
  LET Succeeded(o) == o.success
      Filled(o) == o.success /\ o.hasFill
      CancelSucceeded(o) == o.cancel.present /\ o.cancel.cancelSuccess
      Notified(o) == CancelSucceeded(o) /\ o.cancel.hasNotification
      Of(Leg(_), Value(_)) ==
        LET legs == SelectSeq(orders, Leg)
        IN [n \in DOMAIN legs |-> Value(legs[n])]
      SendToReturn(o) == o.sendToReturnLatency
      SendToFill(o) == o.sendToFillLatency
      FillToNotification(o) == o.fillToNotificationLatency
      CancelSendToReturn(o) == o.cancel.cancelSendToReturnLatency
      CancelSendToNotification(o) == o.cancel.cancelSendToNotificationLatency
  IN [sendToReturn |-> LatencyStats(Of(Succeeded, SendToReturn)),
      sendToFill |-> LatencyStats(Of(Succeeded, SendToFill)),
      fillToNotification |-> LatencyStats(Of(Filled, FillToNotification)),
      cancelSendToReturn |-> LatencyStats(Of(CancelSucceeded, CancelSendToReturn)),
      cancelSendToNotification |->
        LatencyStats(Of(Notified, CancelSendToNotification))]

\* the latency statistics of calculateStatistics: the samples of each latency
\* are filtered from result.orders, mapped to the field and sorted
CalculateLatencies(orders) ==
  LET Succeeded(o) == o.success
      Filled(o) == o.success /\ o.hasFill
      CancelSucceeded(o) == o.cancel.present /\ o.cancel.cancelSuccess
      Notified(o) == CancelSucceeded(o) /\ o.cancel.hasNotification
      Of(Leg(_), Value(_)) ==
        LET legs == SelectSeq(orders, Leg)
        IN [n \in DOMAIN legs |-> Value(legs[n])]
      SendToReturn(o) == o.sendToReturnLatency
      SendToFill(o) == o.sendToFillLatency
      FillToNotification(o) == o.fillToNotificationLatency
      CancelSendToReturn(o) == o.cancel.cancelSendToReturnLatency
      CancelSendToNotification(o) == o.cancel.cancelSendToNotificationLatency
  IN [sendToReturn |-> LatencyStats(Of(Succeeded, SendToReturn)),
      sendToFill |-> LatencyStats(Of(Filled, SendToFill)),
      fillToNotification |-> LatencyStats(Of(Filled, FillToNotification)),
      cancelSendToReturn |-> LatencyStats(Of(CancelSucceeded, CancelSendToReturn)),
      cancelSendToNotification |->
        LatencyStats(Of(Notified, CancelSendToNotification))]

\* calculateStatistics is called on a result with these orders
CallCalculateStatistics(orders) ==
  /\ probe = NoProbe
  /\ probe' = [fn |-> "calculateStatistics", orders |-> orders,
               result |-> CalculateLatencies(orders)]
  /\ UNCHANGED <<gwVars, benchVars, retry, bookVars, monitor>>

StatsNext ==
  \E orders \in SeqsUpTo(StatOrders, MaxStatOrders) : CallCalculateStatistics(orders)

StatsSpec == Init /\ [][StatsNext]_vars

\* -------------------------------------------------------- the trade monitor
\* MonitorService (src/node/src/monitor/monitor.service.ts) tails the trade
\* file of the current hour.  The file is a sequence of bytes; a trade line is
\* written as two pieces, the second of which ends with the newline, in one
\* write or in two.  The record monitor holds
\*   file          the bytes of the watched file
\*   polled        the size the watcher saw when it last emitted 'change'
\*   filePosition  filePosition.get(filePath)
\*   stats         the processFile frames waiting for statAsync: the
\*                 startPosition each was called with and the size its stat
\*                 read (-1 until the stat has run in the thread pool)
\*   tradeRecords  the records kept
\*   detected      history: every record pushed, in order
\*   passed        history: the whole lines passed to processTradeLine, in order
\*   pieces        history: the number of pieces of lines passed to it

MaxLines == 3          \* trade lines the writer appends
MaxRecords == 2        \* maxRecordsToKeep
MaxPending == 2        \* processFile frames waiting for their stat

LineIds == 1 .. MaxLines

\* what a line holds: a trade of a monitored address, or one that is not
\* recorded (it is older than an hour, or of other addresses)
LineKinds == {"trade", "old"}

Piece(line, half, kind) == [line |-> line, half |-> half, kind |-> kind]

\* the pieces between two newlines of the content read: a whole line is its
\* two pieces in a row; the text before the first newline or after the last
\* one can be a piece alone
RECURSIVE SplitLines(_)
SplitLines(content) ==
  IF content = <<>> THEN <<>>
  ELSE IF /\ Len(content) >= 2
          /\ content[1].half = 1
          /\ content[2].half = 2
          /\ content[2].line = content[1].line
  THEN <<[line |-> content[1].line, kind |-> content[1].kind, whole |-> TRUE]>>
         \o SplitLines(SubSeq(content, 3, Len(content)))
  ELSE <<[line |-> content[1].line, kind |-> content[1].kind, whole |-> FALSE]>>
         \o SplitLines(Tail(content))

\* a variant of ProcessTradeLine that drops the newest record at the limit
ProcessTradeLineDropsNewest(m, line) ==
  LET m1 == IF line.whole THEN [m EXCEPT !.passed = Append(@, line.line)]
            ELSE [m EXCEPT !.pieces = @ + 1]
  IN IF line.whole /\ line.kind = "trade"
     THEN LET records == Append(m1.tradeRecords, line.line)
          IN [m1 EXCEPT !.detected = Append(@, line.line),
                        !.tradeRecords = IF Len(records) > MaxRecords
                                         THEN SubSeq(records, 1, Len(records) - 1)
                                         ELSE records]
     ELSE m1

\* processTradeLine(line): a piece of a line does not parse and is logged; a
\* recent trade of a monitored address is pushed and, over the limit, the
\* oldest record is shifted out
ProcessTradeLine(m, line) ==
  LET m1 == IF line.whole THEN [m EXCEPT !.passed = Append(@, line.line)]
            ELSE [m EXCEPT !.pieces = @ + 1]
  IN IF line.whole /\ line.kind = "trade"
     THEN LET records == Append(m1.tradeRecords, line.line)
          IN [m1 EXCEPT !.detected = Append(@, line.line),
                        !.tradeRecords = IF Len(records) > MaxRecords
                                         THEN Tail(records)
                                         ELSE records]
     ELSE m1

\* for (const line of lines) if (line.trim()) this.processTradeLine(line)
RECURSIVE ProcessLines(_, _)
ProcessLines(m, lines) ==
  IF lines = <<>> THEN m
  ELSE ProcessLines(ProcessTradeLine(m, Head(lines)), Tail(lines))

Without(seq, n) == SubSeq(seq, 1, n - 1) \o SubSeq(seq, n + 1, Len(seq))

\* processFile(filePath, startPosition) after await statAsync(filePath): the
\* bytes from startPosition to the size read by the stat are read and split
\* (the file is append-only, it holds them), and the position is set to that size
ProcessFile(m, frame) ==
  IF frame.size <= frame.startPosition THEN m
  ELSE [ProcessLines(m, SplitLines(SubSeq(m.file, frame.startPosition + 1, frame.size)))
          EXCEPT !.filePosition = frame.size]

\* the last line of the file is complete
LineEnded ==
  IF monitor.file = <<>> THEN TRUE ELSE monitor.file[Len(monitor.file)].half = 2

LinesWritten == {monitor.file[n].line : n \in DOMAIN monitor.file}

\* the writer appends a trade line in one write
WriteLine(kind) ==
  /\ Cardinality(LinesWritten) < MaxLines
  /\ LineEnded
  /\ LET line == Cardinality(LinesWritten) + 1
     IN monitor' = [monitor EXCEPT
                      !.file = @ \o <<Piece(line, 1, kind), Piece(line, 2, kind)>>]
  /\ UNCHANGED <<gwVars, benchVars, retry, bookVars, probe>>

\* the writer appends the first piece of a trade line
WriteHead(kind) ==
  /\ Cardinality(LinesWritten) < MaxLines
  /\ LineEnded
  /\ LET line == Cardinality(LinesWritten) + 1
     IN monitor' = [monitor EXCEPT !.file = Append(@, Piece(line, 1, kind))]
  /\ UNCHANGED <<gwVars, benchVars, retry, bookVars, probe>>

\* the writer appends the rest of the line and the newline
WriteRest ==
  /\ monitor.file # <<>>
  /\ monitor.file[Len(monitor.file)].half = 1
  /\ LET last == monitor.file[Len(monitor.file)]
     IN monitor' = [monitor EXCEPT !.file = Append(@, Piece(last.line, 2, last.kind))]
  /\ UNCHANGED <<gwVars, benchVars, retry, bookVars, probe>>

\* the polling watcher sees that the file has changed and emits 'change':
\* handleFileChange reads the stored position and calls processFile, which
\* starts the stat
HandleFileChange ==
  /\ Len(monitor.file) # monitor.polled
  /\ Len(monitor.stats) < MaxPending
  /\ monitor' = [monitor EXCEPT
                   !.polled = Len(monitor.file),
                   !.stats = Append(@, [startPosition |-> monitor.filePosition,
                                        size |-> -1])]
  /\ UNCHANGED <<gwVars, benchVars, retry, bookVars, probe>>

\* a stat runs in the thread pool and reads the size of the file
StatRuns(n) ==
  /\ n \in DOMAIN monitor.stats
  /\ monitor.stats[n].size = -1
  /\ monitor' = [monitor EXCEPT !.stats[n].size = Len(monitor.file)]
  /\ UNCHANGED <<gwVars, benchVars, retry, bookVars, probe>>

\* await statAsync resolves and processFile runs to its end
StatResolves(n) ==
  /\ n \in DOMAIN monitor.stats
  /\ monitor.stats[n].size >= 0
  /\ monitor' = ProcessFile([monitor EXCEPT !.stats = Without(@, n)], monitor.stats[n])
  /\ UNCHANGED <<gwVars, benchVars, retry, bookVars, probe>>

MonitorNext ==
  \/ \E kind \in LineKinds : WriteLine(kind)
  \/ \E kind \in LineKinds : WriteHead(kind)
  \/ WriteRest
  \/ HandleFileChange
  \/ \E n \in 1 .. MaxPending : StatRuns(n)
  \/ \E n \in 1 .. MaxPending : StatResolves(n)

MonitorSpec == Init /\ [][MonitorNext]_vars

\* ------------------------------------------------------------- properties
\* GwSpec is the gateway called by a client; Spec is the orchestrator calling
\* the gateway.

\* C1: every placement made with a fill callback that the venue accepts has
\* registered the callback before a fill notification for its order id is
\* processed: no placement that is about to return success has had a fill for
\* its venue-assigned id handled while the id was not registered.
C1_RegisteredBeforeAnyFill ==
  \A k \in Callers :
    (/\ calls[k].pc = "resp"
     /\ calls[k].cb # NoCb
     /\ StatusSucceeds(calls[k].op, calls[k].status))
    => ~calls[k].early

\* C2: a fill notification carrying a registered id invokes the callback
\* registered under it and removes the entry, and no callback is ever invoked a
\* second time, whether the id comes again in the same message or in a later
\* one.
C2_CallbackExactlyOnce ==
  [][/\ \A id \in Oids : invoked'[id] <= 1
     /\ lastOp'.op = "userFills" =>
          \A id \in {lastOp'.a[n] : n \in DOMAIN lastOp'.a} :
             id \in DOMAIN pendingOrders =>
                /\ invoked'[id] = invoked[id] + 1
                /\ id \notin DOMAIN pendingOrders']_vars

\* a message carrying the same registered id twice has been handled
C2_Witness ==
  /\ lastOp.op = "userFills"
  /\ Len(lastOp.a) = 2
  /\ lastOp.a[1] = lastOp.a[2]
  /\ lastOp.a[1] \in lastOp.hit
  /\ invoked[lastOp.a[1]] = 1

\* C3: a fill notification whose order id has no entry in pendingOrders
\* invokes no callback and adds no entry; the entries of the ids the message
\* does not carry stay as they are, and a message that carries no registered
\* id changes nothing at all.
C3_UnregisteredFillIsNoOp ==
  [][lastOp'.op = "userFills" =>
       LET ids == {lastOp'.a[n] : n \in DOMAIN lastOp'.a}
       IN /\ \A id \in ids \ DOMAIN pendingOrders :
                invoked'[id] = invoked[id] /\ id \notin DOMAIN pendingOrders'
          /\ \A id \in Oids \ ids : invoked'[id] = invoked[id]
          /\ \A id \in DOMAIN pendingOrders \ ids :
                id \in DOMAIN pendingOrders' /\ pendingOrders'[id] = pendingOrders[id]
          /\ ids \cap DOMAIN pendingOrders = {} =>
                /\ pendingOrders' = pendingOrders
                /\ invoked' = invoked
                /\ cancelTasks' = cancelTasks
                /\ now' = now
                /\ UNCHANGED benchVars]_vars

\* a message about an order that was resolved before has been handled while
\* another order was registered
C3_Witness ==
  /\ lastOp.op = "userFills"
  /\ lastOp.hit = {}
  /\ \E id \in lastOp.miss : invoked[id] = 1
  /\ DOMAIN pendingOrders # {}

\* C4: a placement that fails (an error was raised, or the venue's status is
\* neither filled nor resting) returns success=false and leaves pendingOrders
\* as it is; pendingOrders gains an entry only at the return of a placement
\* with success=true, a non-empty order id and a callback, and the entry is
\* that id's.
C4_FailedPlacementRegistersNothing ==
  [][/\ lastOp'.op = "placeReturn" =>
          LET call == calls[lastOp'.k]
              res == lastOp'.res
              failed == \/ call.pc = "pre"
                        \/ call.status \notin {"filled", "resting"}
          IN /\ failed => ~res.success
             /\ ~res.success => pendingOrders' = pendingOrders
             /\ pendingOrders' # pendingOrders =>
                   /\ res.success /\ res.orderId # 0 /\ call.cb # NoCb
                   /\ pendingOrders' =
                         MapSet(pendingOrders, res.orderId,
                                [orderId |-> res.orderId, startTime |-> res.sentTime,
                                 callback |-> call.cb])
     /\ DOMAIN pendingOrders' \ DOMAIN pendingOrders # {} =>
          lastOp'.op = "placeReturn"]_vars

\* a placement has failed with a raised error while an order was registered
C4_Witness ==
  /\ lastOp.op = "placeReturn"
  /\ ~lastOp.res.success
  /\ lastOp.res.errorMessage \in RaisedMessages
  /\ DOMAIN pendingOrders # {}

\* C5: cleanupExpiredOrders(timeoutMs) removes exactly the entries whose age
\* exceeds timeoutMs, keeps the others as they are, invokes no callback and
\* touches no call in flight.
C5_CleanupRemovesExactlyExpired ==
  [][lastOp'.op = "cleanup" =>
       /\ DOMAIN pendingOrders' =
             {id \in DOMAIN pendingOrders :
                 now - pendingOrders[id].startTime <= lastOp'.a}
       /\ \A id \in DOMAIN pendingOrders' : pendingOrders'[id] = pendingOrders[id]
       /\ invoked' = invoked
       /\ calls' = calls
       /\ cancelTasks' = cancelTasks]_vars

\* a cleanup has removed an entry and kept another
C5_Witness ==
  /\ lastOp.op = "cleanup"
  /\ lastOp.hit # {}
  /\ DOMAIN pendingOrders # {}

\* C6: a cancelOrder that succeeds leaves no entry for its order id in
\* pendingOrders and keeps the other entries, one that fails leaves
\* pendingOrders as it is; neither invokes a fill callback, and a fill
\* notification for an id without an entry invokes none.
C6_CancelRemovesFillRegistration ==
  [][/\ lastOp'.op = "cancelReturn" =>
          IF lastOp'.res.success
          THEN /\ lastOp'.a \notin DOMAIN pendingOrders'
               /\ \A id \in DOMAIN pendingOrders \ {lastOp'.a} :
                     id \in DOMAIN pendingOrders' /\ pendingOrders'[id] = pendingOrders[id]
               /\ invoked' = invoked
          ELSE /\ pendingOrders' = pendingOrders
               /\ invoked' = invoked
               /\ cancelTasks' = cancelTasks
     /\ lastOp'.op = "userFills" =>
          \A id \in Oids \ DOMAIN pendingOrders : invoked'[id] = invoked[id]]_vars

\* a cancel has succeeded for an order that was registered
C6_Witness ==
  /\ lastOp.op = "cancelReturn"
  /\ lastOp.res.success
  /\ lastOp.a \in lastOp.hit

\* C7: at most one runBenchmark call is running at any time, isRunning is true
\* exactly while one is, and a call made while isRunning is true is rejected at
\* once: it has no frame left, no gateway call and no fill timer of its own.
C7_AtMostOneRun ==
  /\ Cardinality({c \in Callers : bench[c].pc \in RunPcs}) <= 1
  /\ isRunning <=> \E c \in Callers : bench[c].pc \in RunPcs
  /\ lastOp.op = "rejected" =>
        /\ isRunning
        /\ bench[lastOp.k] = IdleBench
        /\ calls[lastOp.k] = IdleCall
        /\ lastOp.built = <<>>

\* a call has been rejected while the run in progress was placing an order
C7_Witness ==
  /\ lastOp.op = "rejected"
  /\ \E c \in Callers : bench[c].pc = "placing" /\ calls[c].pc = "sent"

\* C8: a rejected runBenchmark call leaves isRunning true and changes nothing
\* of the run in progress: its frame with the recorded orders, its gateway
\* call, its timers, the registered callbacks and the last result stay as
\* they are.
C8_RejectedCallChangesNothing ==
  [][lastOp'.op = "rejected" =>
       /\ isRunning'
       /\ UNCHANGED <<isRunning, currentBenchmark, bench, timers>>
       /\ UNCHANGED <<now, pendingOrders, calls, cancelTasks, oidCount, planned,
                      invoked>>]_vars

\* a call has been rejected while the run in progress had recorded an order
\* and was executing the next
C8_Witness ==
  /\ lastOp.op = "rejected"
  /\ \E c \in Callers :
        /\ bench[c].pc \in ExecPcs
        /\ Len(bench[c].orders) >= 1
        /\ bench[c].i < bench[c].config.numberOfOrders

\* C9: when a runBenchmark call that was running ends, by a return or by a
\* raised run-level error, isRunning is false, the error is the one raised,
\* no order of the batch is executed any more and no frame is left, so that
\* the next call is accepted; isRunning is never true without a running call.
C9_RunEndClearsIsRunning ==
  /\ lastOp.ended # "-" =>
        /\ ~isRunning
        /\ \A c \in Callers : bench[c] = IdleBench /\ calls[c] = IdleCall
  /\ lastOp.ended = "raised" => lastOp.error \in Faults \ {"none"}
  /\ lastOp.ended = "returned" => lastOp.error = ""
  /\ isRunning => \E c \in Callers : bench[c].pc \in RunPcs

\* a run has ended with a raised error before the last order of its batch
C9_Witness ==
  /\ lastOp.ended = "raised"
  /\ lastOp.left > 0
  /\ ~isRunning

C11_TransientPlacementRetried ==
  [][(/\ lastOp'.op = "placeReturn"
      /\ bench[lastOp'.k].pc = "placing"
      /\ lastOp'.raised = "network error"
      /\ lastOp'.built # <<>>)
     => bench[lastOp'.k].attempt = MaxRetriesOf(bench[lastOp'.k].config)]_vars

\* C12: a placement of the orchestrator that fails with a permanent error is
\* the only gateway call of its order, and the order is recorded in the same
\* step with success=false and the raised message as errorMessage; the result
\* of a run counts every failed order under its errorMessage in
\* errorCategories.
C12_PermanentFailureRecordedOnce ==
  [][/\ (/\ lastOp'.op = "placeReturn"
         /\ bench[lastOp'.k].pc = "placing"
         /\ lastOp'.raised = "insufficient balance")
        => /\ bench[lastOp'.k].attempt = 1
           /\ calls'[lastOp'.k].cb # calls[lastOp'.k].cb
           /\ Len(lastOp'.built) = 1
           /\ ~lastOp'.built[1].success
           /\ lastOp'.built[1].errorMessage = lastOp'.raised
           /\ lastOp'.built[1].idx = bench[lastOp'.k].i
     /\ currentBenchmark'.present =>
           \A j \in 1 .. Len(currentBenchmark'.orders) :
              LET order == currentBenchmark'.orders[j]
              IN (~order.success /\ order.errorMessage # "") =>
                   /\ order.errorMessage \in DOMAIN currentBenchmark'.errorCategories
                   /\ currentBenchmark'.errorCategories[order.errorMessage] =
                         Cardinality({n \in 1 .. Len(currentBenchmark'.orders) :
                                        /\ ~currentBenchmark'.orders[n].success
                                        /\ currentBenchmark'.orders[n].errorMessage
                                              = order.errorMessage})]_vars

\* a run has ended with the return of a placement that raised a permanent
\* error, and its result counts the message
C12_Witness ==
  /\ lastOp.op = "placeReturn"
  /\ lastOp.raised = "insufficient balance"
  /\ lastOp.ended = "returned"
  /\ currentBenchmark.present
  /\ "insufficient balance" \in DOMAIN currentBenchmark.errorCategories
  /\ currentBenchmark.errorCategories["insufficient balance"] >= 1

\* C13: retryOperation on an operation that has raised a retryable error at
\* every attempt so far has called it once per attempt and has slept
\* baseDelay * 2^(k-1) after failed attempt k; when it raises it has made
\* exactly maxRetries calls, has slept after every attempt but the last, and
\* raises the last error.  When an attempt fulfils, its value is returned, and
\* a call that has returned or raised makes no further attempt.
C13_RetriesWithBackoffThenRaises ==
  [][LET r == retry'
         transient == \A n \in DOMAIN r.raises :
                         r.raises[n].message \in {"network error", ""}
         backoff == \A k \in DOMAIN r.sleeps : r.sleeps[k] = r.baseDelay * 2^(k - 1)
     IN /\ (transient /\ r.pc = "raised") =>
              /\ r.opCalls = r.maxRetries
              /\ Len(r.raises) = r.maxRetries
              /\ Len(r.sleeps) = (IF r.maxRetries = 0 THEN 0 ELSE r.maxRetries - 1)
              /\ backoff
              /\ r.maxRetries >= 1 => r.error = Err(r.raises[Len(r.raises)].message)
        /\ (transient /\ r.pc = "sleeping") =>
              /\ r.attempt < r.maxRetries
              /\ r.opCalls = r.attempt /\ Len(r.sleeps) = r.attempt
              /\ backoff
        /\ (transient /\ r.pc = "calling") =>
              /\ r.opCalls = r.attempt /\ Len(r.sleeps) = r.attempt - 1
              /\ backoff
        /\ r.pc = "returned" =>
              /\ r.value \in OperationValues
              /\ r.opCalls = Len(r.raises) + 1
              /\ Len(r.sleeps) = Len(r.raises)
        /\ retry.pc \in {"returned", "raised"} => r = retry]_vars

\* three attempts have raised a transient error and the call has raised after
\* two sleeps
C13_Witness ==
  /\ retry.pc = "raised"
  /\ retry.maxRetries = 3
  /\ retry.baseDelay = 2
  /\ \A n \in DOMAIN retry.raises : retry.raises[n] = [isError |-> TRUE, message |-> "network error"]
  /\ retry.sleeps = <<2, 4>>
  /\ retry.opCalls = 3

\* C14: when an attempt of retryOperation raises a permanent error (an Error
\* whose message names insufficient balance or an exceeded rate limit, in any
\* letter case), the call raises that error at once: the attempt is the last
\* call of the operation and no sleep follows it, whatever maxRetries is and
\* whichever attempt it is.
C14_PermanentErrorRaisedAtOnce ==
  [][LET r == retry'
     IN (/\ r.raises # <<>>
         /\ r.raises[Len(r.raises)].isError
         /\ r.raises[Len(r.raises)].message
               \in {"Insufficient Balance", "API rate limit exceeded"})
        => /\ r.pc = "raised"
           /\ r.error = Err(r.raises[Len(r.raises)].message)
           /\ r.opCalls = Len(r.raises)
           /\ Len(r.sleeps) = Len(r.raises) - 1
           /\ r.opCalls <= r.maxRetries]_vars

\* the second of three allowed attempts has raised a permanent error
C14_Witness ==
  /\ retry.pc = "raised"
  /\ retry.maxRetries = 3
  /\ Len(retry.raises) = 2
  /\ retry.raises[2] = [isError |-> TRUE, message |-> "Insufficient Balance"]
  /\ retry.opCalls = 2

\* the sum of the values of a function with a finite domain
RECURSIVE SumValues(_)
SumValues(f) ==
  IF DOMAIN f = {} THEN 0
  ELSE LET x == CHOOSE y \in DOMAIN f : TRUE
       IN f[x] + SumValues([y \in DOMAIN f \ {x} |-> f[y]])

\* the number of failed orders in a sequence of recorded metrics
FailedIn(orders) == Cardinality({n \in DOMAIN orders : ~orders[n].success})

\* C15: when the fill wait of a successfully placed market or limit order
\* times out, the metrics built say success=true with the sent and returned
\* times of the placement, have no fill fields and no errorMessage, and the
\* order is recorded as a success: the result of a run that ends there counts
\* as failed, and under an error category, only the other orders that failed.
C15_FillTimeoutKeepsSuccess ==
  [][(lastOp'.op = "timeout" /\ lastOp'.built # <<>>) =>
       LET c == lastOp'.k
           m == lastOp'.built[1]
       IN /\ bench[c].pc = "fillWait"
          /\ bench[c].config.orderType \in {"market", "limit"}
          /\ m.success
          /\ m.orderId = bench[c].placementResult.orderId
          /\ m.orderSentTime = bench[c].placementResult.sentTime
          /\ m.orderReturnedTime = bench[c].placementResult.returnedTime
          /\ ~m.hasFill
          /\ m.errorMessage = ""
          /\ lastOp'.ended = "returned" =>
                /\ currentBenchmark'.orders = Append(bench[c].orders, Recorded(m))
                /\ currentBenchmark'.totalFailedOrders = FailedIn(bench[c].orders)
                /\ SumValues(currentBenchmark'.errorCategories) = FailedIn(bench[c].orders)
                /\ currentBenchmark'.totalSuccessfulOrders
                      = Len(bench[c].orders) - FailedIn(bench[c].orders) + 1]_vars

\* a run of two orders has ended with the fill timeout of its second order,
\* the first having failed
C15_Witness ==
  /\ lastOp.op = "timeout"
  /\ lastOp.ended = "returned"
  /\ Len(lastOp.built) = 1
  /\ lastOp.built[1].success
  /\ ~lastOp.built[1].hasFill
  /\ currentBenchmark.config.numberOfOrders = 2
  /\ currentBenchmark.totalFailedOrders = 1

C17_SentNotAfterReturned ==
  lastOp.op \in {"placeReturn", "cancelReturn"} =>
     lastOp.res.sentTime <= lastOp.res.returnedTime

\* C18: in the result of a finished run the successful and the failed orders
\* add up to the recorded orders and the values of errorCategories add up to
\* totalFailedOrders; when every order failed, successRate is 0,
\* totalFailedOrders is the number of orders and so is the sum of the
\* categories.
C18_CountsAddUp ==
  currentBenchmark.present =>
    LET res == currentBenchmark
    IN /\ res.totalSuccessfulOrders + res.totalFailedOrders = Len(res.orders)
       /\ SumValues(res.errorCategories) = res.totalFailedOrders
       /\ \A key \in DOMAIN res.errorCategories : res.errorCategories[key] >= 1
       /\ (\A n \in DOMAIN res.orders : ~res.orders[n].success) =>
             /\ res.successRate.num = 0
             /\ res.totalFailedOrders = Len(res.orders)
             /\ SumValues(res.errorCategories) = Len(res.orders)

\* a run of two orders has finished with both orders failed for the same reason
C18_Witness ==
  /\ currentBenchmark.present
  /\ Len(currentBenchmark.orders) = 2
  /\ currentBenchmark.totalFailedOrders = 2
  /\ currentBenchmark.successRate.num = 0
  /\ Cardinality(DOMAIN currentBenchmark.errorCategories) = 1

\* C19: after a Snapshot message the book holds exactly the orders of the
\* payload, one entry per order id with the fields of the payload's last order
\* of that id, whatever it held before: every earlier entry whose id is not in
\* the payload is gone.
C19_SnapshotReplacesBook ==
  [][bookOp'.op = "snapshot" =>
       LET items == bookOp'.items
           ids == {items[n].oid : n \in DOMAIN items}
       IN /\ BookIds(allOrders') = ids
          /\ Len(allOrders') = Cardinality(ids)
          /\ \A n \in DOMAIN allOrders' :
                LET entry == allOrders'[n]
                    last == CHOOSE m \in DOMAIN items :
                               /\ items[m].oid = entry.oid
                               /\ \A k \in DOMAIN items : items[k].oid = entry.oid => k <= m
                IN /\ entry.sz = items[last].sz
                   /\ entry.coin = "BTC"
                   /\ entry.side = BookSide(entry.oid)
                   /\ entry.limitPx = BookPx(entry.oid)
          /\ \A id \in BookIds(allOrders) \ ids : id \notin BookIds(allOrders')]_vars

\* a snapshot has been applied to a book that held an order the payload does
\* not name
C19_Witness ==
  /\ bookOp.op = "snapshot"
  /\ bookOp.gone # {}
  /\ allOrders # <<>>
  /\ BookIds(allOrders) = {bookOp.items[n].oid : n \in DOMAIN bookOp.items}

\* C20: a Diff message leaves the entries of the ids it does not name as they
\* are and in their order, and raises nothing; its item `remove` deletes its
\* id, `new` leaves an entry with the item's coin, side, price and size under
\* its id, `update` sets the size of the entry of its id and keeps its side
\* and price, and changes nothing when the id has no entry.
C20_DiffChangesOnlyItsOrder ==
  [][bookOp'.op = "diff" =>
       LET items == bookOp'.items
           ids == {items[n].oid : n \in DOMAIN items}
           Unnamed(entry) == entry.oid \notin ids
       IN /\ SelectSeq(allOrders', Unnamed) = SelectSeq(allOrders, Unnamed)
          /\ ~bookOp'.raised
          /\ Len(items) = 1 =>
                LET it == items[1]
                IN /\ it.kind = "remove" => it.oid \notin BookIds(allOrders')
                   /\ it.kind = "new" =>
                         /\ it.oid \in BookIds(allOrders')
                         /\ BookGet(allOrders', it.oid).coin = "BTC"
                         /\ BookGet(allOrders', it.oid).side = BookSide(it.oid)
                         /\ BookGet(allOrders', it.oid).limitPx = BookPx(it.oid)
                         /\ BookGet(allOrders', it.oid).sz = it.sz
                         /\ BookGet(allOrders', it.oid).oid = it.oid
                   /\ (it.kind = "update" /\ it.oid \in BookIds(allOrders)) =>
                         /\ BookIds(allOrders') = BookIds(allOrders)
                         /\ BookGet(allOrders', it.oid).sz = it.sz
                         /\ BookGet(allOrders', it.oid).side = BookGet(allOrders, it.oid).side
                         /\ BookGet(allOrders', it.oid).limitPx
                               = BookGet(allOrders, it.oid).limitPx
                   /\ (it.kind = "update" /\ it.oid \notin BookIds(allOrders)) =>
                         allOrders' = allOrders]_vars

\* a Diff has removed one of two bids and left the other bid and the ask
C20_Witness ==
  /\ bookOp.op = "diff"
  /\ Len(bookOp.items) = 1
  /\ bookOp.items[1].kind = "remove"
  /\ bookOp.gone = {bookOp.items[1].oid}
  /\ BookSide(bookOp.items[1].oid) = "B"
  /\ Len(SideOf(allOrders, "B")) = 1
  /\ Len(SideOf(allOrders, "A")) = 1

\* ---------------------------------------------------------------------------
\* the size strings of the payloads as numbers
SzNum(sz) == IF sz = "1" THEN 1 ELSE 2

\* an Updates message with exactly one status was handled by this step
OneStatus == bookOp'.op = "updates" /\ Len(bookOp'.items) = 1

\* C21: a status update with status open inserts the order of its id, or
\* replaces it in place; with status filled, canceled, badAloPxRejected or
\* rejected the id is deleted; in both cases every other entry stays as it
\* was; with a status the switch does not know the whole map is unchanged.
C21_StatusUpdateEffect ==
  [][OneStatus =>
       LET item == bookOp'.items[1]
           Others(book) == BookDelete(book, item.oid)
       IN /\ item.kind = "open" =>
               /\ item.oid \in BookIds(allOrders')
               /\ BookGet(allOrders', item.oid).sz = item.sz
               /\ BookGet(allOrders', item.oid).side = BookSide(item.oid)
               /\ BookGet(allOrders', item.oid).limitPx = BookPx(item.oid)
               /\ Others(allOrders') = Others(allOrders)
               /\ item.oid \in BookIds(allOrders) =>
                     [n \in DOMAIN allOrders' |-> allOrders'[n].oid]
                       = [n \in DOMAIN allOrders |-> allOrders[n].oid]
               /\ item.oid \notin BookIds(allOrders) =>
                     allOrders'[Len(allOrders')].oid = item.oid
          /\ item.kind \in {"filled", "canceled", "badAloPxRejected", "rejected"} =>
               /\ item.oid \notin BookIds(allOrders')
               /\ allOrders' = Others(allOrders)
          /\ item.kind \notin {"open", "filled", "canceled", "badAloPxRejected",
                                "rejected", "partialFill"} =>
               allOrders' = allOrders]_vars

\* an unknown status arrived for an order of a book of two, and before it an
\* order was deleted by a status update
C21_Witness ==
  /\ bookOp.op = "updates"
  /\ Len(bookOp.items) = 1
  /\ bookOp.items[1].kind = "triggered"
  /\ bookOp.items[1].oid \in BookIds(allOrders)
  /\ Len(allOrders) = 2

IsSideOf(seq, book, side) ==
  /\ Len(seq) = Len(SideOf(book, side))
  /\ \A n \in DOMAIN book :
       book[n].side = side => \E m \in DOMAIN seq : seq[m] = book[n]

\* the place of an entry in the map, which is the order of first insertion
PlaceIn(book, entry) == CHOOSE n \in DOMAIN book : book[n].oid = entry.oid

TimesPassed(line) ==
  Cardinality({n \in DOMAIN monitor.passed : monitor.passed[n] = line})

\* C25: whatever the interleaving of appends, change events and stats, each
\* appended trade line is passed to processTradeLine at most once, and the
\* stored file position never decreases.
C25_NoByteReadTwice ==
  /\ [](\A line \in LineIds : TimesPassed(line) <= 1)
  /\ [][monitor'.filePosition >= monitor.filePosition]_vars

\* C26: tradeRecords holds at most maxRecordsToKeep records, and they are the
\* last records pushed, in the order of their detection.
C26_KeepsMostRecentRecords ==
  LET kept == monitor.tradeRecords
      all == monitor.detected
  IN /\ Len(kept) <= MaxRecords
     /\ Len(kept) = (IF Len(all) <= MaxRecords THEN Len(all) ELSE MaxRecords)
     /\ kept = SubSeq(all, Len(all) - Len(kept) + 1, Len(all))

\* three different trades were detected one after the other and the first was
\* dropped
C26_Witness ==
  /\ monitor.detected = <<1, 2, 3>>
  /\ monitor.tradeRecords = <<2, 3>>

\* ---------------------------------------------------------------------------
\* C27: within one run one order at a time is in flight: while executeOrder
\* runs for order i exactly the orders 0 .. i-1 are recorded, in index order,
\* cleanupExpiredOrders has run once for each of them, and the gateway call in
\* flight for the run, if any, is the one of order i; during the sleep between
\* orders the orders 0 .. i are recorded and cleaned up and no call is in flight.
C27_OneOrderAtATime ==
  \A c \in Callers :
    bench[c].pc \in RunPcs =>
      /\ \A n \in DOMAIN bench[c].orders : bench[c].orders[n].idx = n - 1
      /\ bench[c].pc \in ExecPcs =>
           /\ Len(bench[c].orders) = bench[c].i
           /\ bench[c].cleanups = bench[c].i
           /\ calls[c].pc # "idle" => calls[c].cb.i = Eid(bench[c])
      /\ bench[c].pc = "sleep" =>
           /\ Len(bench[c].orders) = bench[c].i + 1
           /\ bench[c].cleanups = bench[c].i + 1
           /\ calls[c].pc = "idle"

\* the placement of the second order of a run is with the venue
C27_Witness ==
  \E c \in Callers :
    /\ bench[c].pc = "placing"
    /\ bench[c].i = 1
    /\ calls[c].pc = "sent"
    /\ Len(bench[c].orders) = 1

\* ---------------------------------------------------------------------------
\* the step built the metrics m of the order that caller c was executing
BuiltFor(c, m) ==
  /\ bench[c].pc \in ExecPcs
  /\ lastOp'.built # <<>>
  /\ m = lastOp'.built[1]
  /\ m.idx = bench[c].i

\* the order of caller c is one whose fill executeOrder waits for
AwaitsFill(c, m) ==
  /\ m.success
  /\ bench[c].config.orderType \in {"market", "limit"}
  /\ ~bench[c].config.testCancelLatency

\* C28, as stated: for a successful market or limit order with the cancel test
\* off, the wait for the fill lasts up to maxOrderTimeout after the placement
\* has returned, so metrics without a fill are not built before that time.
C28_WaitsTimeoutAfterReturn ==
  [][\A c \in Callers :
       LET m == lastOp'.built[1]
       IN (BuiltFor(c, m) /\ AwaitsFill(c, m) /\ ~m.hasFill) =>
            now' >= m.orderReturnedTime + bench[c].config.maxOrderTimeout]_vars

\* C28, amended: the timeout runs from the start of executeOrder.  Metrics
\* without a fill are built only once the timer has rejected the fill promise,
\* which is not before maxOrderTimeout after executeOrder began, and a fill
\* delivered to the fill callback before that is in the metrics.
C28_WaitsTimeoutAfterStart ==
  [][\A c \in Callers :
       LET m == lastOp'.built[1]
       IN (BuiltFor(c, m) /\ AwaitsFill(c, m)) =>
            /\ ~m.hasFill =>
                 /\ now' >= bench[c].started + bench[c].config.maxOrderTimeout
                 /\ \/ bench[c].fillPromise = "rejected"
                    \/ lastOp'.op = "timeout" /\ lastOp'.a = Eid(bench[c])
            /\ bench[c].fillResult.present => m.hasFill]_vars

\* the timer of a placed order fired while executeOrder was waiting for the
\* fill, and the metrics were built without one
C28_Witness ==
  /\ lastOp.op = "timeout"
  /\ lastOp.built # <<>>
  /\ lastOp.built[1].success
  /\ ~lastOp.built[1].hasFill
  /\ ~lastOp.built[1].cancel.present

\* ---------------------------------------------------------------------------
\* the number of samples of value v in a sequence
Occurrences(samples, v) == Cardinality({n \in DOMAIN samples : samples[n] = v})

\* the samples are the values that the orders with the leg have, each once,
\* in ascending order, and the statistics are those of the samples
SamplesAre(stats, orders, has, value) ==
  /\ stats.count = Cardinality({n \in DOMAIN orders : has[n]})
  /\ \A v \in 0 .. 4 :
       Occurrences(stats.samples, v)
         = Cardinality({n \in DOMAIN orders : has[n] /\ value[n] = v})
  /\ \A n \in DOMAIN stats.samples : n > 1 => stats.samples[n - 1] <= stats.samples[n]
  /\ stats.set = (stats.count > 0)
  /\ stats.set =>
       /\ stats.sum = Sum(stats.samples)
       /\ stats.min = stats.samples[1]
       /\ stats.max = stats.samples[stats.count]

\* C29: each latency statistic is computed over the orders that have the leg
\* only: send-to-return over the successful orders, send-to-fill and
\* fill-to-notification over the successful orders with fill data, the cancel
\* statistics over the successful cancels (the notification one over those
\* with a notification); an order without the leg gives no sample.
C29_StatisticsOverOwnLeg ==
  probe.fn = "calculateStatistics" =>
    LET orders == probe.orders
        r == probe.result
        D == DOMAIN orders
    IN /\ SamplesAre(r.sendToReturn, orders,
                     [n \in D |-> orders[n].success],
                     [n \in D |-> orders[n].sendToReturnLatency])
       /\ SamplesAre(r.sendToFill, orders,
                     [n \in D |-> orders[n].success /\ orders[n].hasFill],
                     [n \in D |-> orders[n].sendToFillLatency])
       /\ SamplesAre(r.fillToNotification, orders,
                     [n \in D |-> orders[n].success /\ orders[n].hasFill],
                     [n \in D |-> orders[n].fillToNotificationLatency])
       /\ SamplesAre(r.cancelSendToReturn, orders,
                     [n \in D |-> orders[n].cancel.present /\ orders[n].cancel.cancelSuccess],
                     [n \in D |-> orders[n].cancel.cancelSendToReturnLatency])
       /\ SamplesAre(r.cancelSendToNotification, orders,
                     [n \in D |-> /\ orders[n].cancel.present
                                  /\ orders[n].cancel.cancelSuccess
                                  /\ orders[n].cancel.hasNotification],
                     [n \in D |-> orders[n].cancel.cancelSendToNotificationLatency])

\* a result of a failed order, an order whose fill timed out and a filled
\* order: one send-to-fill sample, two send-to-return samples, no cancel sample
C29_Witness ==
  /\ probe.fn = "calculateStatistics"
  /\ Len(probe.orders) = 3
  /\ ~probe.orders[1].success
  /\ probe.orders[2].success /\ ~probe.orders[2].hasFill
  /\ probe.orders[3].success /\ probe.orders[3].hasFill
  /\ probe.result.sendToFill.samples = <<probe.orders[3].sendToFillLatency>>
  /\ probe.result.sendToReturn.count = 2
  /\ ~probe.result.cancelSendToReturn.set

\* ---------------------------------------------------------------------------
\* C30: when the metrics of an order with cancel data are built, a successful
\* cancel has had its callback invoked exactly once, with cancelTime and
\* notificationTime equal to cancelReturnedTime, so that the notification time
\* is the returned time and cancelSendToNotificationLatency equals
\* cancelSendToReturnLatency; a failed cancel has had no invocation, none is
\* scheduled, and the notification fields are absent.
C30_CancelCallbackOnceOnSuccess ==
  [][\A c \in Callers :
       LET m == lastOp'.built[1]
           b == bench[c]
       IN (BuiltFor(c, m) /\ m.cancel.present) =>
            IF m.cancel.cancelSuccess
            THEN /\ b.notified = 1
                 /\ b.cancelResult.present
                 /\ b.cancelResult.cancelTime = m.cancel.cancelReturnedTime
                 /\ b.cancelResult.notificationTime = m.cancel.cancelReturnedTime
                 /\ m.cancel.hasNotification
                 /\ m.cancel.cancelNotificationTime = m.cancel.cancelReturnedTime
                 /\ m.cancel.cancelReturnToNotificationLatency = 0
                 /\ m.cancel.cancelSendToNotificationLatency
                      = m.cancel.cancelSendToReturnLatency
                 /\ ~\E task \in cancelTasks' : task.cb = [c |-> c, i |-> Eid(b)]
            ELSE /\ b.notified = 0
                 /\ ~b.cancelResult.present
                 /\ ~m.cancel.hasNotification
                 /\ ~\E task \in cancelTasks' : task.cb = [c |-> c, i |-> Eid(b)]]_vars

\* the metrics of an order whose cancel succeeded and was notified were built
C30_Witness ==
  /\ lastOp.built # <<>>
  /\ lastOp.built[1].cancel.present
  /\ lastOp.built[1].cancel.cancelSuccess
  /\ lastOp.built[1].cancel.hasNotification
  /\ lastOp.built[1].cancel.cancelNotificationTime = lastOp.built[1].cancel.cancelReturnedTime
  /\ lastOp.built[1].cancel.cancelReturnedTime > 0

\* ---------------------------------------------------------------------------
\* the stored result is that of a run that went through all its orders and
\* its statistics
Finalized(result) ==
  /\ result.present
  /\ Len(result.orders) = result.config.numberOfOrders
  /\ \A n \in DOMAIN result.orders : result.orders[n].idx = n - 1
  /\ result.totalSuccessfulOrders = CountWhere(result.orders, TRUE)
  /\ result.totalFailedOrders = CountWhere(result.orders, FALSE)
  /\ result.totalSuccessfulOrders + result.totalFailedOrders = Len(result.orders)

\* C31: currentBenchmark, which getCurrentBenchmarkResult returns, is null or
\* the finalized result of a run that completed normally; it changes only in
\* the step in which a run returns, so a run in progress, a rejected start and
\* a run that ends with a raised error leave it as it was.
C31_StoredResultOnlyFinalized ==
  /\ [](currentBenchmark = NoBenchmark \/ Finalized(currentBenchmark))
  /\ [][/\ currentBenchmark' # currentBenchmark => lastOp'.ended = "returned"
        /\ lastOp'.ended = "raised" => currentBenchmark' = currentBenchmark
        /\ lastOp'.op = "rejected" => currentBenchmark' = currentBenchmark
        /\ (\E c \in Callers : bench'[c].pc \in RunPcs) =>
             currentBenchmark' = currentBenchmark]_vars

\* a run has aborted with an order recorded while the result of an earlier run
\* was stored
C31_Witness ==
  /\ lastOp.ended = "raised"
  /\ lastOp.built # <<>>
  /\ currentBenchmark.present
  /\ Len(currentBenchmark.orders) = 1

\* ---------------------------------------------------------------------------
\* the entries of pendingOrders that the run of caller c registered: their
\* callback is the fillCallback of one of its executeOrder calls
RegisteredBy(po, c, first) ==
  {id \in DOMAIN po : po[id].callback.c = c /\ po[id].callback.i >= first}

\* C32: when runBenchmark returns, pendingOrders holds no entry that was
\* registered during that run.
C32_NoEntryLeftAtReturn ==
  [][\A c \in Callers :
       (bench[c].pc \in RunPcs /\ bench'[c].pc = "idle" /\ lastOp'.ended = "returned") =>
          RegisteredBy(pendingOrders', c, bench[c].first) = {}]_vars

\* ---------------------------------------------------------------------------
\* C33: when executeOrder returns the metrics of an order, the fill-timeout
\* timer of that order is not armed any more, and if it has rejected the fill
\* promise then executeOrder has awaited the promise.
C33_NoTimerLeftArmed ==
  [][\A c \in Callers :
       LET m == lastOp'.built[1]
       IN BuiltFor(c, m) =>
            /\ ~\E tm \in timers' : tm.c = c /\ tm.i = Eid(bench[c])
            /\ bench[c].fillPromise = "rejected" => AwaitsFill(c, m)]_vars

\* ---------------------------------------------------------------------------
\* the fill callbacks of the order that caller c is executing
OwnCallback(c) == [c |-> c, i |-> Eid(bench[c])]

\* C34: a fill notification for order id X reaches the metrics of the order
\* whose placement returned X only.  A userFills message none of whose ids is
\* registered with the callback of the order in execution leaves the frame of
\* that order as it is (its fill result, its fill wait, the orders recorded);
\* metrics with fill fields carry the id of the fill they were built from; and
\* the orders recorded in a run are only ever appended to.
C34_FillReachesOwnOrderOnly ==
  [][\A c \in Callers :
       /\ (/\ lastOp'.op = "userFills"
           /\ bench[c].pc \in ExecPcs
           /\ \A id \in lastOp'.hit : pendingOrders[id].callback # OwnCallback(c))
          => bench'[c] = bench[c] /\ currentBenchmark' = currentBenchmark
       /\ LET m == lastOp'.built[1]
          IN (BuiltFor(c, m) /\ m.hasFill) =>
               \/ bench[c].fillResult.present /\ bench[c].fillResult.orderId = m.orderId
               \/ /\ lastOp'.op = "userFills"
                  /\ m.orderId \in lastOp'.hit
                  /\ pendingOrders[m.orderId].callback = OwnCallback(c)
       /\ (bench[c].pc \in RunPcs /\ bench'[c].pc \in RunPcs) =>
            /\ Len(bench'[c].orders) >= Len(bench[c].orders)
            /\ SubSeq(bench'[c].orders, 1, Len(bench[c].orders)) = bench[c].orders]_vars

\* the fill of the first order of a run, whose wait had timed out, has arrived
\* while the second order was waiting for its own fill, and that wait goes on
C34_Witness ==
  /\ lastOp.op = "userFills"
  /\ lastOp.hit # {}
  /\ \E c \in Callers :
       /\ bench[c].pc = "fillWait"
       /\ bench[c].i = 1
       /\ bench[c].fillPromise = "pending"
       /\ ~bench[c].fillResult.present
       /\ bench[c].placementResult.orderId \notin lastOp.hit
       /\ bench[c].orders[1].orderId \in lastOp.hit

\* ---------------------------------------------------------------------------
\* the elements of an ascending array between which percentile p falls,
\* in hundredths
LowerElement(a, p) == 100 * a[((p * (Len(a) - 1)) \div 100) + 1]
UpperElement(a, p) ==
  LET index == p * (Len(a) - 1)
  IN 100 * a[(index \div 100) + (IF index % 100 = 0 THEN 1 ELSE 2)]

C36_UpdatesNeverRaise ==
  bookOp.op = "updates" =>
    /\ ~bookOp.raised
    /\ \A n \in DOMAIN bookOp.items :
         (\A k \in DOMAIN bookOp.items : k > n => bookOp.items[k].oid # bookOp.items[n].oid) =>
           /\ bookOp.items[n].kind = "open" => bookOp.items[n].oid \in BookIds(allOrders)
           /\ bookOp.items[n].kind \in {"filled", "canceled", "badAloPxRejected", "rejected"} =>
                bookOp.items[n].oid \notin BookIds(allOrders)

\* ---------------------------------------------------------------------------
\* every change of the file was handled: the watcher has seen its size, no
\* processFile frame is waiting and the stored position is the end of the file
Settled ==
  /\ monitor.polled = Len(monitor.file)
  /\ monitor.stats = <<>>
  /\ monitor.filePosition = Len(monitor.file)

\* the lines of the file whose newline is written
CompleteLines == {monitor.file[n].line : n \in {k \in DOMAIN monitor.file : monitor.file[k].half = 2}}

\* C37: no trade line is lost: once every change of the file was handled,
\* every complete line of the file has been passed whole to processTradeLine,
\* also when a change was handled while only a part of the line was written.
C37_NoLineLost ==
  Settled => \A line \in CompleteLines : TimesPassed(line) >= 1

====
